---- MODULE Spec2Model ----
(***************************************************************************)
(* Research-corpus pipeline of Scripts/Research: manifest construction     *)
(* (build_manifest.py), asset extraction (extract_assets.py) and           *)
(* summarization (summarize_papers.py), with the shared helpers of         *)
(* research_common.py.  Each stage is a sequential program; a stage is     *)
(* modelled as a state machine whose steps are the statements between two  *)
(* observable file-system effects.  External tools (pdfinfo, pdftotext,    *)
(* pdfimages, pdftoppm) are black boxes: every outcome subprocess.run can  *)
(* produce is a nondeterministic choice.                                   *)
(***************************************************************************)
EXTENDS Integers, Sequences, FiniteSets, TLC

\* ------------------------------------------------------------------ bounds
MaxFiles == 3
MaxPapers == 2
MaxSummarized == 3
MaxLines == 2
MaxBlocks == 250

\* -------------------------------------------------------- shared helpers
None == "None"

\* str.lower() on one code point (ASCII letters only occur in the model)
LowerChar(c) == IF c >= 65 /\ c <= 90 THEN c + 32 ELSE c

\* str.lower()
Lower(s) == [i \in DOMAIN s |-> LowerChar(s[i])]

\* Python's str < str: code-point lexicographic order
LexLess(a, b) ==
    \/ \E i \in 1..Len(a) :
          /\ i <= Len(b)
          /\ a[i] < b[i]
          /\ \A j \in 1..(i - 1) : a[j] = b[j]
    \/ /\ Len(a) < Len(b)
       /\ \A j \in 1..Len(a) : a[j] = b[j]

LexLeq(a, b) == a = b \/ LexLess(a, b)

\* sorted(items, key=...) is stable: an item goes after every earlier item
\* whose key is not greater.  Items are records with a field "key".
RECURSIVE InsertStable(_, _)
InsertStable(sorted, item) ==
    IF sorted = <<>> THEN <<item>>
    ELSE IF LexLess(item.key, Head(sorted).key)
         THEN <<item>> \o sorted
         ELSE <<Head(sorted)>> \o InsertStable(Tail(sorted), item)

RECURSIVE SortedByKey(_)
SortedByKey(items) ==
    IF items = <<>> THEN <<>>
    ELSE InsertStable(SortedByKey(SubSeq(items, 1, Len(items) - 1)), items[Len(items)])

\* the concatenation of a sequence of sequences
RECURSIVE Flatten(_)
Flatten(ss) == IF ss = <<>> THEN <<>> ELSE Head(ss) \o Flatten(Tail(ss))

\* all enumerations (without repetition) of a finite set
Perms(S) == {p \in [1..Cardinality(S) -> S] : \A i, j \in DOMAIN p : p[i] = p[j] => i = j}

\* the outcomes of research_common.run_command: exit code 0 with text on
\* stdout, exit code 0 with blank stdout, a non-zero exit code, or
\* subprocess.TimeoutExpired raised out of subprocess.run
CmdOutcomes == {"ok", "empty", "fail", "timeout"}

\* ------------------------------------------------- manifest stage: inputs
\* file names "A.pdf", "a.pdf", "b.pdf", "C.pdf" as code-point sequences
PdfSuffix == <<46, 112, 100, 102>>
StemChars == {65, 97, 98, 67}
FileNames == {<<c>> \o PdfSuffix : c \in StemChars}

\* content digests <<first 8 hex digits, remaining digits>>
Hashes == {<<1, 1>>, <<2, 2>>}

\* sha256[:8]
HashPrefix(h) == h[1]

VARIABLES
    mPc,             \* position of build_manifest.main
    papersDirExists, \* whether --papers-dir exists
    dirFiles,        \* the papers directory: file name -> content digest
    mFs,             \* existing paths under --out-dir
    mCreated,        \* paths this run has created
    stagedCopies,    \* files copied into temp_probe
    pdf_files,       \* the sorted glob result
    records,         \* per-file records, in pdf_files order
    mIdx,            \* loop index into pdf_files
    manifest_all,    \* content of manifest_all.json (None while not written)
    manifest_unique  \* content of manifest_unique.json (None while not written)

mvars == <<mPc, papersDirExists, dirFiles, mFs, mCreated, stagedCopies,
           pdf_files, records, mIdx, manifest_all, manifest_unique>>

VARIABLES
    xPc,             \* position of extract_assets.main
    manifestExists,  \* whether --manifest exists
    papers,          \* manifest["papers"]
    force,           \* --force of the current run
    xFs,             \* existing paths under --out-dir
    stagedPdfs,      \* papers whose PDF copy lies in staging/
    pfiles,          \* per paper: which of its directories and files exist
    xStart,          \* papers whose metadata.json existed when this run started
    xWritten,        \* papers for which this run created, wrote or removed a path
    xIdx,            \* loop index into papers
    extraction_rows, \* rows of the current run
    ok_text,         \* local of the current paper
    pagesLoaded,     \* local: pages is non-empty
    working_pdf,     \* local: "direct" (source path) or "staged"
    attempts,        \* the pdftotext calls made for the current paper, with results
    xRaisedIn        \* the call an exception left the run from

xvars == <<xPc, manifestExists, papers, force, xFs, stagedPdfs, pfiles,
           xStart, xWritten, xIdx, extraction_rows, ok_text, pagesLoaded,
           working_pdf, attempts, xRaisedIn>>

VARIABLES
    sPc,             \* position of summarize_papers
    sPapers,         \* manifest["papers"] as the summarizer loads it
    sHasMetadata,    \* per paper: metadata.json exists
    sIdx,            \* enumerate index into sPapers (1-based)
    summaries,       \* the summary list
    bibliography,    \* the bibliography list
    sWritten         \* paper_summaries.json has been written

svars == <<sPc, sPapers, sHasMetadata, sIdx, summaries, bibliography, sWritten>>

VARIABLES
    pPc,             \* position of publish_notion: "start", "parse", ..., "done"
    tokenSet,        \* the token environment variable is set and not blank
    lines,           \* the kinds of the markdown lines
    lineIdx,         \* parse_markdown's i, 1-based
    blocks,          \* the blocks parse_markdown has built
    publish_log,     \* the events appended to publish_log
    attempt,         \* request_with_retry's attempt: the request being sent
    upload_id,       \* whether the upload in progress has its id
    chunk_idx,       \* append_blocks' chunk_idx
    appendCalls,     \* history: the payload of every chunk append call begun
    acked,           \* history: chunk indexes the server answered with success
    calls,           \* history: every external call ended, with its outcome
    pError,          \* the exception that ended the run
    pFiles           \* artifact files written

pvars == <<pPc, tokenSet, lines, lineIdx, blocks, publish_log, attempt,
           upload_id, chunk_idx, appendCalls, acked, calls, pError, pFiles>>

VARIABLES
    kRow,            \* should_keep_image's row
    kFileSize,       \* should_keep_image's file_size
    kResult          \* what should_keep_image returned, once it has

kvars == <<kRow, kFileSize, kResult>>

VARIABLES
    fPc,             \* position of extract_figures: "list", "row", "fallback", ...
    fImages,         \* the PDF's embedded images as the tools report them
    fPdfPages,       \* the number of pages of the PDF
    pages_count,     \* the pages_count argument
    rows,            \* parse_pdfimages_list's rows
    file_by_index,   \* the image numbers that have an extracted file
    fIdx,            \* position in rows, 1-based
    kept,
    rejected,
    seen_hashes,
    fallback_used

fvars == <<fPc, fImages, fPdfPages, pages_count, rows, file_by_index, fIdx, kept,
           rejected, seen_hashes, fallback_used>>

VARIABLES
    ePc,             \* position of extract_equation_candidates: "scan", "returned"
    ePages,          \* the pages argument: the raw lines of every page
    page_idx,        \* the page being scanned, 1-based
    eLine,           \* the line of that page being scanned, 1-based
    candidates,
    seen,
    eReturned        \* the list returned

evars == <<ePc, ePages, page_idx, eLine, candidates, seen, eReturned>>

VARIABLES
    vPc,             \* position of the summary loop: "loop", "done"
    vTotal,          \* the number of papers that have metadata.json
    vSummaries,      \* the summaries list, with the fields the validation reads
    validation,      \* the validation block, once computed
    vWritten         \* the corpus JSON has been written

vvars == <<vPc, vTotal, vSummaries, validation, vWritten>>

VARIABLES
    cSummary,        \* the papers of the summarizer's JSON, as compose_markdown loads it
    cClock,          \* the wall clock, in half seconds
    cRuns            \* history: the markdown every run of compose_markdown wrote

cvars == <<cSummary, cClock, cRuns>>

VARIABLES
    gPc,             \* position of one sentence pass: "ready", "picked"
    gPool,           \* the sentence pool: items with page and text
    gPass,           \* the pass: objective, methods, findings or limitations
    gLimit,          \* the limit argument of pick_sentences
    gChosen,         \* what pick_sentences returned
    gParagraph       \* what format_paragraph_from_sentences returned

gvars == <<gPc, gPool, gPass, gLimit, gChosen, gParagraph>>

VARIABLES
    tPc,             \* position of one text split: "ready", "done"
    tKind,           \* the form of the markdown: "paragraph" or "equation"
    tText,           \* the paragraph text, or the text between the $$ markers
    tOut             \* the blocks made of it, each with its runs of text

tvars == <<tPc, tKind, tText, tOut>>

VARIABLES
    wPc,             \* position of parse_markdown: "start", "scan", "returned", "raised"
    wLines,          \* markdown_text.splitlines()
    wI,              \* parse_markdown's i, 0-based as in the code
    wBlocks,         \* the blocks built so far, each with its first source line
    wLog,            \* the events the scan appended to publish_log
    heading_count,   \* headings seen
    image_count      \* image lines turned into a block

wvars == <<wPc, wLines, wI, wBlocks, wLog, heading_count, image_count>>

vars == <<mvars, xvars, svars, pvars, kvars, fvars, evars, vvars, cvars, gvars, tvars, wvars>>

\* what a step of one stage leaves alone: the other stages
MFrame == UNCHANGED <<xvars, svars, pvars, kvars, fvars, evars, vvars, cvars, gvars, tvars, wvars>>
XFrame == UNCHANGED <<mvars, svars, pvars, kvars, fvars, evars, vvars, cvars, gvars, tvars, wvars>>
SFrame == UNCHANGED <<mvars, xvars, pvars, kvars, fvars, evars, vvars, cvars, gvars, tvars, wvars>>
PFrame == UNCHANGED <<mvars, xvars, svars, kvars, fvars, evars, vvars, cvars, gvars, tvars, wvars>>
KFrame == UNCHANGED <<mvars, xvars, svars, pvars, fvars, evars, vvars, cvars, gvars, tvars, wvars>>
FFrame == UNCHANGED <<mvars, xvars, svars, pvars, kvars, evars, vvars, cvars, gvars, tvars, wvars>>
EFrame == UNCHANGED <<mvars, xvars, svars, pvars, kvars, fvars, vvars, cvars, gvars, tvars, wvars>>
VFrame == UNCHANGED <<mvars, xvars, svars, pvars, kvars, fvars, evars, cvars, gvars, tvars, wvars>>
CFrame == UNCHANGED <<mvars, xvars, svars, pvars, kvars, fvars, evars, vvars, gvars, tvars, wvars>>
GFrame == UNCHANGED <<mvars, xvars, svars, pvars, kvars, fvars, evars, vvars, cvars, tvars, wvars>>
TFrame == UNCHANGED <<mvars, xvars, svars, pvars, kvars, fvars, evars, vvars, cvars, gvars, wvars>>
WFrame == UNCHANGED <<mvars, xvars, svars, pvars, kvars, fvars, evars, vvars, cvars, gvars, tvars>>

\* ------------------------------------------- manifest stage: pure helpers
\* An Optional[int] is a sequence of at most one integer: <<>> is None.
NoInt == <<>>

\* parse_pdfinfo_pages applied to the stdout of pdfinfo: the declared page
\* count when a "Pages:" line is present, else None.  The page count of a
\* file is a property of its content.
PageCountOf(h) == h[2]

parse_pdfinfo_pages(outcome, h) == IF outcome = "ok" THEN <<PageCountOf(h)>> ELSE NoInt

\* pages = parse_pdfinfo_pages(info.stdout) if info.code == 0 else None
PagesFromPdfinfo(outcome, h) ==
    IF outcome \in {"ok", "empty"} THEN parse_pdfinfo_pages(outcome, h) ELSE NoInt

\* probe_extractability: direct probe, then copy to the staging directory and
\* probe the copy.  raised = an exception left the function; copied = a
\* staged copy was written into temp_probe.
probe_extractability(direct, copyOk, staged) ==
    IF direct = "timeout"
    THEN [raised |-> TRUE, status |-> None, copied |-> FALSE]
    ELSE IF direct = "ok"
    THEN [raised |-> FALSE, status |-> "direct_ok", copied |-> FALSE]
    ELSE IF ~copyOk
    THEN [raised |-> FALSE, status |-> "failed", copied |-> FALSE]
    ELSE IF staged = "timeout"
    THEN [raised |-> TRUE, status |-> None, copied |-> TRUE]
    ELSE IF staged = "ok"
    THEN [raised |-> FALSE, status |-> "requires_staging", copied |-> TRUE]
    ELSE [raised |-> FALSE, status |-> "failed", copied |-> TRUE]

\* sorted(papers_dir.glob("*.pdf"), key=lambda p: p.name.lower()) for one
\* enumeration order of the directory
SortedGlob(order) ==
    LET items == [i \in DOMAIN order |-> [key |-> Lower(order[i]), val |-> order[i]]]
        srt   == SortedByKey(items)
    IN  [i \in DOMAIN srt |-> srt[i].val]

\* groups.setdefault(sha256, []).append(record): a dict keeps insertion order
GroupByShaNoMerge(recs) ==
    [i \in DOMAIN recs |-> [sha256 |-> recs[i].sha256, members |-> <<recs[i]>>]]

RECURSIVE GroupBySha(_)
GroupBySha(recs) ==
    IF recs = <<>> THEN <<>>
    ELSE LET prev == GroupBySha(SubSeq(recs, 1, Len(recs) - 1))
             r    == recs[Len(recs)]
         IN  IF \E i \in DOMAIN prev : prev[i].sha256 = r.sha256
             THEN [i \in DOMAIN prev |->
                     IF prev[i].sha256 = r.sha256
                     THEN [prev[i] EXCEPT !.members = Append(@, r)]
                     ELSE prev[i]]
             ELSE Append(prev, [sha256 |-> r.sha256, members |-> <<r>>])

\* sorted(x["file_name"] for x in kv[1])[0]: the smallest name in code-point order
FirstSortedName(members) ==
    LET names == {members[i].file_name : i \in DOMAIN members}
    IN  CHOOSE n \in names : \A m \in names : LexLeq(n, m)

\* key=lambda kv: sorted(x["file_name"] for x in kv[1])[0].lower()
GroupSortKey(members) == Lower(FirstSortedName(members))

\* group_items = sorted(groups.items(), key=...)
GroupItems(groups) ==
    LET items == [i \in DOMAIN groups |->
                    [key |-> GroupSortKey(groups[i].members), val |-> groups[i]]]
        srt   == SortedByKey(items)
    IN  [i \in DOMAIN srt |-> srt[i].val]

\* sorted(group_records, key=lambda r: str(r["file_name"]).lower())
SortedGroup(members) ==
    LET items == [i \in DOMAIN members |->
                    [key |-> Lower(members[i].file_name), val |-> members[i]]]
        srt   == SortedByKey(items)
    IN  [i \in DOMAIN srt |-> srt[i].val]

\* max(0, len(aliases) - 1)
DuplicateCount(aliases) == IF Len(aliases) - 1 > 0 THEN Len(aliases) - 1 ELSE 0

\* f"paper_{idx:03d}_{sha256[:8]}"
PaperId(idx, sha256) == <<idx, HashPrefix(sha256)>>

UniqueRecord(idx, group) ==
    LET sorted_group == SortedGroup(group.members)
        canonical    == sorted_group[1]
        aliases      == [i \in DOMAIN sorted_group |-> sorted_group[i].file_name]
    IN  [paper_id              |-> PaperId(idx, group.sha256),
         sha256                |-> group.sha256,
         canonical_file_name   |-> canonical.file_name,
         pages                 |-> canonical.pages,
         extractability_status |-> canonical.extractability_status,
         alias_file_names      |-> aliases,
         duplicate_count       |-> DuplicateCount(aliases)]

\* unique_records of build_manifest
UniqueRecords(recs) ==
    LET group_items == GroupItems(GroupBySha(recs))
    IN  [idx \in DOMAIN group_items |-> UniqueRecord(idx, group_items[idx])]

\* duplicate_groups: the alias list of every group
DuplicateGroups(uniq) == [i \in DOMAIN uniq |-> uniq[i].alias_file_names]

ManifestAll(recs, uniq) ==
    [total_files      |-> Len(recs),
     unique_files     |-> Len(uniq),
     duplicate_groups |-> Cardinality({i \in DOMAIN uniq : Len(DuplicateGroups(uniq)[i]) > 1}),
     records          |-> recs,
     duplicate_groups_detail |-> DuplicateGroups(uniq)]

ManifestUnique(recs, uniq) ==
    [source_total_files  |-> Len(recs),
     source_unique_files |-> Len(uniq),
     papers              |-> uniq]

\* ------------------------------------------------ manifest stage: actions
Directories ==
    UNION {[S -> Hashes] : S \in {T \in SUBSET FileNames : Cardinality(T) <= MaxFiles}}

MInit ==
    /\ mPc = "start"
    /\ papersDirExists \in BOOLEAN
    /\ dirFiles \in (IF papersDirExists THEN Directories ELSE {<<>>})
    /\ mFs \in {{}, {"out_dir"}}
    /\ mCreated = {}
    /\ stagedCopies = {}
    /\ pdf_files = <<>>
    /\ records = <<>>
    /\ mIdx = 1
    /\ manifest_all = None
    /\ manifest_unique = None

\* build_manifest.main: ensure_dir(out_dir), then the papers-dir check
ManifestMain ==
    /\ mPc = "start"
    /\ mFs' = mFs \cup {"out_dir"}
    /\ mCreated' = mCreated \cup ({"out_dir"} \ mFs)
    /\ mPc' = IF papersDirExists THEN "build" ELSE "aborted"
    /\ UNCHANGED <<papersDirExists, dirFiles, stagedCopies, pdf_files, records,
                   mIdx, manifest_all, manifest_unique>>
    /\ MFrame

\* build_manifest, up to the loop: staging directory, sorted glob
BuildManifestBegin ==
    /\ mPc = "build"
    /\ mFs' = mFs \cup {"temp_probe"}
    /\ mCreated' = mCreated \cup ({"temp_probe"} \ mFs)
    /\ \E order \in Perms(DOMAIN dirFiles) : pdf_files' = SortedGlob(order)
    /\ mIdx' = 1
    /\ mPc' = "loop"
    /\ UNCHANGED <<papersDirExists, dirFiles, stagedCopies, records,
                   manifest_all, manifest_unique>>
    /\ MFrame

\* what probe_extractability can do on one file
ProbeResults ==
    {probe_extractability(direct, copyOk, staged) :
        direct \in CmdOutcomes, copyOk \in BOOLEAN, staged \in CmdOutcomes}

\* one iteration of the per-file loop: stat, sha256_file, pdfinfo, the
\* extractability probe, records.append
ProbeRecord ==
    /\ mPc = "loop"
    /\ mIdx <= Len(pdf_files)
    /\ \E info \in CmdOutcomes, probe \in ProbeResults :
          LET pdf == pdf_files[mIdx]
              sha == dirFiles[pdf]
          IN  IF info = "timeout"
              THEN /\ mPc' = "crashed"
                   /\ UNCHANGED <<stagedCopies, records, mIdx>>
              ELSE /\ stagedCopies' = IF probe.copied THEN stagedCopies \cup {pdf}
                                      ELSE stagedCopies
                   /\ IF probe.raised
                      THEN /\ mPc' = "crashed"
                           /\ UNCHANGED <<records, mIdx>>
                      ELSE /\ records' = Append(records,
                                  [file_name |-> pdf,
                                   sha256    |-> sha,
                                   pages     |-> PagesFromPdfinfo(info, sha),
                                   extractability_status |-> probe.status])
                           /\ mIdx' = mIdx + 1
                           /\ mPc' = "loop"
    /\ UNCHANGED <<papersDirExists, dirFiles, mFs, mCreated, pdf_files,
                   manifest_all, manifest_unique>>
    /\ MFrame

\* build_manifest after the loop: grouping, both json_dump calls, rmtree
BuildManifestFinish ==
    /\ mPc = "loop"
    /\ mIdx > Len(pdf_files)
    /\ LET uniq == UniqueRecords(records)
       IN  /\ manifest_all' = ManifestAll(records, uniq)
           /\ manifest_unique' = ManifestUnique(records, uniq)
    /\ mFs' = (mFs \cup {"manifest_all.json", "manifest_unique.json"}) \ {"temp_probe"}
    /\ mCreated' = mCreated \cup ({"manifest_all.json", "manifest_unique.json"} \ mFs)
    /\ stagedCopies' = {}
    /\ mPc' = "done"
    /\ UNCHANGED <<papersDirExists, dirFiles, pdf_files, records, mIdx>>
    /\ MFrame

\* ----------------------------------------------- extraction stage: inputs
\* extractability_status of a manifest paper; line 452 treats "failed" like
\* "direct_ok" (prefer_staging is false)
ExtractStatuses == {"direct_ok", "requires_staging"}

\* the manifests build_manifest can have written: sequence numbers 1..N
ManifestPapers ==
    UNION {[1..n -> [paper_id : {0}, extractability_status : ExtractStatuses]]
              : n \in 0..MaxPapers}

WithIds(ps) == [i \in DOMAIN ps |-> [ps[i] EXCEPT !.paper_id = i]]

NoFiles ==
    [dir |-> FALSE, figures |-> FALSE, raw |-> FALSE, text |-> FALSE,
     metadata |-> FALSE, equation_candidates |-> FALSE, figures_index |-> FALSE,
     pages_meta |-> FALSE]

\* ------------------------------------------ extraction stage: pure helpers
\* if metadata_path.exists() and not force
ShouldSkipNever(metadataExists, forced) == FALSE

ShouldSkipForced(metadataExists, forced) == metadataExists

ShouldSkip(metadataExists, forced) == metadataExists /\ ~forced

\* prefer_staging = str(paper.get("extractability_status", "")).lower() == "requires_staging"
PreferStaging(paper) == paper.extractability_status = "requires_staging"

\* candidates = [staging_pdf, source_pdf] if prefer_staging else [source_pdf, staging_pdf]
Candidates(prefer_staging) ==
    IF prefer_staging THEN <<"staged", "direct">> ELSE <<"direct", "staged">>

\* what one iteration of the candidate loop can meet: shutil.copy2 raising
\* (staged candidate only), or pdftotext returning 0 with the text file
\* written, returning non-zero, or running into the timeout
AttemptOutcomes == {"ok", "fail", "timeout", "copy_error"}

\* the loop of extract_full_text over the remaining candidates
RECURSIVE TryCandidates(_, _, _)
TryCandidates(cands, outs, acc) ==
    IF cands = <<>>
    THEN [acc EXCEPT !.ok = FALSE, !.working = "direct"]
    ELSE LET c    == Head(cands)
             o    == Head(outs)
         IN  IF c = "staged" /\ o = "copy_error"
             THEN [acc EXCEPT !.raised = TRUE]
             ELSE LET acc1 == [acc EXCEPT !.copied = (@ \/ c = "staged"),
                                          !.attempts = Append(@, [path |-> c, result |-> o])]
                  IN  IF o = "timeout" THEN [acc1 EXCEPT !.raised = TRUE]
                      ELSE IF o = "ok"
                      THEN [acc1 EXCEPT !.ok = TRUE, !.working = c,
                                        !.textWritten = TRUE]
                      ELSE TryCandidates(Tail(cands), Tail(outs), acc1)

extract_full_text(prefer_staging, outs) ==
    TryCandidates(Candidates(prefer_staging), outs,
                  [raised |-> FALSE, ok |-> FALSE, working |-> "direct",
                   copied |-> FALSE, textWritten |-> FALSE, attempts |-> <<>>])

\* ----------------------------------------------- extraction stage: actions
XInit ==
    /\ xPc = "start"
    /\ manifestExists \in BOOLEAN
    /\ papers \in (IF manifestExists THEN {WithIds(ps) : ps \in ManifestPapers} ELSE {<<>>})
    /\ force \in BOOLEAN
    /\ xFs \in (IF manifestExists THEN {{"out_dir"}} ELSE {{}, {"out_dir"}})
    /\ stagedPdfs = {}
    /\ pfiles = [i \in DOMAIN papers |-> NoFiles]
    /\ xStart = {}
    /\ xWritten = {}
    /\ xIdx = 1
    /\ extraction_rows = <<>>
    /\ ok_text = FALSE
    /\ pagesLoaded = FALSE
    /\ working_pdf = "direct"
    /\ attempts = <<>>
    /\ xRaisedIn = None

\* extract_assets.main and extract_assets up to the loop
ExtractMain ==
    /\ xPc = "start"
    /\ IF manifestExists
       THEN /\ xFs' = xFs \cup {"out_dir", "papers", "staging"}
            /\ xPc' = "paper"
       ELSE /\ xFs' = xFs \cup {"out_dir"}
            /\ xPc' = "aborted"
    /\ xIdx' = 1
    /\ UNCHANGED <<manifestExists, papers, force, stagedPdfs, pfiles, xStart, xWritten,
                   extraction_rows, ok_text, pagesLoaded, working_pdf, attempts,
                   xRaisedIn>>
    /\ XFrame

\* the two ensure_dir calls at the top of the loop body create a directory
MakesDirs(p) == ~pfiles[p].dir \/ ~pfiles[p].figures

\* top of the per-paper loop: directories, the skip decision, the forced reset
PaperBegin ==
    /\ xPc = "paper"
    /\ xIdx <= Len(papers)
    /\ IF ShouldSkip(pfiles[xIdx].metadata, force)
       THEN /\ pfiles' = [pfiles EXCEPT ![xIdx].dir = TRUE, ![xIdx].figures = TRUE]
            /\ xWritten' = IF MakesDirs(xIdx) THEN xWritten \cup {xIdx} ELSE xWritten
            /\ extraction_rows' = Append(extraction_rows,
                  [paper_id |-> papers[xIdx].paper_id, status |-> "skipped"])
            /\ xIdx' = xIdx + 1
            /\ xPc' = "paper"
       ELSE /\ pfiles' = [pfiles EXCEPT ![xIdx] =
                  IF force
                  THEN [NoFiles EXCEPT !.dir = TRUE, !.figures = TRUE]
                  ELSE [@ EXCEPT !.dir = TRUE, !.figures = TRUE]]
            /\ xWritten' = IF MakesDirs(xIdx) \/ force THEN xWritten \cup {xIdx}
                             ELSE xWritten
            /\ xPc' = "text"
            /\ UNCHANGED <<extraction_rows, xIdx>>
    /\ ok_text' = FALSE
    /\ pagesLoaded' = FALSE
    /\ working_pdf' = "direct"
    /\ attempts' = <<>>
    /\ UNCHANGED <<manifestExists, papers, force, xFs, stagedPdfs, xStart, xRaisedIn>>
    /\ XFrame

\* extract_full_text and the reading of text.txt
ExtractText ==
    /\ xPc = "text"
    /\ \E outs \in [1..2 -> AttemptOutcomes] :
          LET prefer == PreferStaging(papers[xIdx])
              cands  == Candidates(prefer)
              res    == extract_full_text(prefer, outs)
          IN  /\ \A k \in 1..2 : cands[k] = "direct" => outs[k] # "copy_error"
              /\ stagedPdfs' = IF res.copied THEN stagedPdfs \cup {xIdx} ELSE stagedPdfs
              /\ pfiles' = IF res.textWritten
                           THEN [pfiles EXCEPT ![xIdx].text = TRUE]
                           ELSE pfiles
              /\ xWritten' = IF res.textWritten THEN xWritten \cup {xIdx} ELSE xWritten
              /\ attempts' = res.attempts
              /\ IF res.raised
                 THEN /\ xPc' = "crashed"
                      /\ xRaisedIn' = "extract_full_text"
                      /\ UNCHANGED <<ok_text, pagesLoaded, working_pdf>>
                 ELSE /\ ok_text' = res.ok
                      /\ pagesLoaded' = (res.ok /\ res.textWritten)
                      /\ working_pdf' = res.working
                      /\ xPc' = "figures"
                      /\ UNCHANGED xRaisedIn
    /\ UNCHANGED <<manifestExists, papers, force, xFs, xStart, xIdx, extraction_rows>>
    /\ XFrame

\* build_metadata, extract_equation_candidates (pure) and extract_figures:
\* the raw directory is made, the image tools run, the raw directory is removed
ExtractFigures ==
    /\ xPc = "figures"
    /\ \E tool \in {"returned", "timeout"} :
          IF tool = "timeout"
          THEN /\ pfiles' = [pfiles EXCEPT ![xIdx].raw = TRUE]
               /\ xPc' = "crashed"
               /\ xRaisedIn' = "extract_figures"
          ELSE /\ pfiles' = [pfiles EXCEPT ![xIdx].raw = FALSE]
               /\ xPc' = "write_metadata"
               /\ UNCHANGED xRaisedIn
    /\ xWritten' = xWritten \cup {xIdx}
    /\ UNCHANGED <<manifestExists, papers, force, xFs, stagedPdfs, xStart, xIdx,
                   extraction_rows, ok_text, pagesLoaded, working_pdf, attempts>>
    /\ XFrame

\* json_dump(metadata_path, metadata)
WriteMetadata ==
    /\ xPc = "write_metadata"
    /\ pfiles' = [pfiles EXCEPT ![xIdx].metadata = TRUE]
    /\ xWritten' = xWritten \cup {xIdx}
    /\ xPc' = "write_equations"
    /\ UNCHANGED <<manifestExists, papers, force, xFs, stagedPdfs, xStart, xIdx,
                   extraction_rows, ok_text, pagesLoaded, working_pdf, attempts,
                   xRaisedIn>>
    /\ XFrame

\* json_dump(eq_path, equation_candidates)
WriteEquations ==
    /\ xPc = "write_equations"
    /\ pfiles' = [pfiles EXCEPT ![xIdx].equation_candidates = TRUE]
    /\ xWritten' = xWritten \cup {xIdx}
    /\ xPc' = "write_figures_index"
    /\ UNCHANGED <<manifestExists, papers, force, xFs, stagedPdfs, xStart, xIdx,
                   extraction_rows, ok_text, pagesLoaded, working_pdf, attempts,
                   xRaisedIn>>
    /\ XFrame

\* json_dump(fig_index_path, figure_summary)
WriteFiguresIndex ==
    /\ xPc = "write_figures_index"
    /\ pfiles' = [pfiles EXCEPT ![xIdx].figures_index = TRUE]
    /\ xWritten' = xWritten \cup {xIdx}
    /\ xPc' = "write_pages_meta"
    /\ UNCHANGED <<manifestExists, papers, force, xFs, stagedPdfs, xStart, xIdx,
                   extraction_rows, ok_text, pagesLoaded, working_pdf, attempts,
                   xRaisedIn>>
    /\ XFrame

\* json_dump(paper_dir / "pages_meta.json", page_meta) and the row of the paper
WritePagesMeta ==
    /\ xPc = "write_pages_meta"
    /\ pfiles' = [pfiles EXCEPT ![xIdx].pages_meta = TRUE]
    /\ xWritten' = xWritten \cup {xIdx}
    /\ extraction_rows' = Append(extraction_rows,
          [paper_id |-> papers[xIdx].paper_id, status |-> "processed",
           text_extracted |-> ok_text])
    /\ xIdx' = xIdx + 1
    /\ xPc' = "paper"
    /\ UNCHANGED <<manifestExists, papers, force, xFs, stagedPdfs, xStart,
                   ok_text, pagesLoaded, working_pdf, attempts, xRaisedIn>>
    /\ XFrame

\* after the loop: extraction_summary.json
ExtractFinish ==
    /\ xPc = "paper"
    /\ xIdx > Len(papers)
    /\ xFs' = xFs \cup {"extraction_summary.json"}
    /\ xPc' = "done"
    /\ UNCHANGED <<manifestExists, papers, force, stagedPdfs, pfiles, xStart, xWritten,
                   xIdx, extraction_rows, ok_text, pagesLoaded, working_pdf, attempts,
                   xRaisedIn>>
    /\ XFrame

XRunning == xPc \notin {"idle", "start", "done", "aborted", "crashed", "killed"}

\* the process is interrupted (signal, power loss) between two steps: its
\* memory is gone, the file system stays as it is
ExtractInterrupted ==
    /\ XRunning
    /\ xPc' = "killed"
    /\ xIdx' = 1
    /\ extraction_rows' = <<>>
    /\ ok_text' = FALSE
    /\ pagesLoaded' = FALSE
    /\ working_pdf' = "direct"
    /\ attempts' = <<>>
    /\ UNCHANGED <<manifestExists, papers, force, xFs, stagedPdfs, pfiles, xStart,
                   xWritten, xRaisedIn>>
    /\ XFrame

\* the stage is run again on the same manifest and output directory
ExtractRerun ==
    /\ xPc \in {"done", "crashed", "killed"}
    /\ force' \in BOOLEAN
    /\ xPc' = "start"
    /\ xStart' = {p \in DOMAIN pfiles : pfiles[p].metadata}
    /\ xWritten' = {}
    /\ xIdx' = 1
    /\ extraction_rows' = <<>>
    /\ ok_text' = FALSE
    /\ pagesLoaded' = FALSE
    /\ working_pdf' = "direct"
    /\ attempts' = <<>>
    /\ xRaisedIn' = None
    /\ UNCHANGED <<manifestExists, papers, xFs, stagedPdfs, pfiles>>
    /\ XFrame

\* ------------------------------------------------------ summarizer stage
\* the unique-paper lists the summarizer can be given: paper_id <<i, prefix>>
SummarizerInputs ==
    UNION {[1..n -> {1, 2}] : n \in 0..MaxSummarized}

\* for citation_number, paper in enumerate(papers, start=1)
CitationNumberRecounted(position, done) == Len(done) + 1

CitationNumber(position, done) == position

SInit ==
    /\ sPc = "loop"
    /\ \E prefixes \in SummarizerInputs :
          sPapers = [i \in DOMAIN prefixes |-> [paper_id |-> <<i, prefixes[i]>>]]
    /\ sHasMetadata \in [DOMAIN sPapers -> BOOLEAN]
    /\ sIdx = 1
    /\ summaries = <<>>
    /\ bibliography = <<>>
    /\ sWritten = FALSE

\* one iteration of the loop of summarize_papers
SummarizePaper ==
    /\ sPc = "loop"
    /\ sIdx <= Len(sPapers)
    /\ IF ~sHasMetadata[sIdx]
       THEN UNCHANGED <<summaries, bibliography>>
       ELSE LET citation_number == CitationNumber(sIdx, summaries)
                paper_id        == sPapers[sIdx].paper_id
            IN  /\ summaries' = Append(summaries,
                      [paper_id |-> paper_id, citation_number |-> citation_number])
                /\ bibliography' = Append(bibliography,
                      [id |-> citation_number, paper_id |-> paper_id])
    /\ sIdx' = sIdx + 1
    /\ UNCHANGED <<sPc, sPapers, sHasMetadata, sWritten>>
    /\ SFrame

\* after the loop: json_dump(out_json, output)
SummarizeFinish ==
    /\ sPc = "loop"
    /\ sIdx > Len(sPapers)
    /\ sWritten' = TRUE
    /\ sPc' = "done"
    /\ UNCHANGED <<sPapers, sHasMetadata, sIdx, summaries, bibliography>>
    /\ SFrame

\* ================================================= publish stage: inputs
\* request_with_retry(max_attempts = 6)
max_attempts == 6

\* chunked(list(blocks), 100)
ChunkSize == 100

\* response.status_code in {429, 500, 502, 503, 504}
RetryStatuses == {429, 500, 502, 503, 504}

\* the status codes the server answers with here: success, a client error,
\* throttling
Statuses == {200, 400, 429}

\* what one requests.request call ends in: a RequestException or a response
Responses ==
    {[exc |-> TRUE, status_code |-> 0]} \cup
    {[exc |-> FALSE, status_code |-> st] : st \in Statuses}

\* a markdown line that gives one block: a heading, a bullet, or an image
\* line with an http(s) target, an existing local file, or a missing one
LineKinds == {"heading", "image_external", "image_local", "image_missing"}

Markdowns == UNION {[1..n -> LineKinds] : n \in 0..MaxLines}

NoError == [kind |-> None, chunk |-> NoInt]

\* ------------------------------------------- publish stage: pure helpers
\* one pass of the loop of request_with_retry: "continue", "return", or
\* "raise" when the loop runs out
RetryDecision(att, r) ==
    IF r.exc
    THEN IF att < max_attempts THEN "continue" ELSE "raise"
    ELSE IF r.status_code \in RetryStatuses /\ att < max_attempts
         THEN "continue"
         ELSE "return"

Min(a, b) == IF a <= b THEN a ELSE b

\* for idx in range(0, len(items), size): yield items[idx : idx + size]
chunkedShort(items, size) ==
    [k \in 1..(Len(items) \div size) |->
        SubSeq(items, (k - 1) * size + 1, k * size)]

chunked(items, size) ==
    [k \in 1..((Len(items) + size - 1) \div size) |->
        SubSeq(items, (k - 1) * size + 1, Min(k * size, Len(items)))]

\* if response.status_code >= 300
Failed(status_code) == status_code >= 300

\* create_child_page: if response.status_code >= 300: raise
CreateFailedNever(status_code) == FALSE

CreateFailed(status_code) == status_code >= 300

\* append_blocks: if response.status_code >= 300: raise
AppendFailedNever(status_code) == FALSE

AppendFailed(status_code) == status_code >= 300

Block(type, line, note) == [type |-> type, line |-> line, note |-> note]

CallEnded(call, ref, r) ==
    [call |-> call, ref |-> ref,
     outcome |-> IF r.exc THEN NoInt ELSE <<r.status_code>>]

\* ------------------------------------------------ publish stage: actions
PInit ==
    /\ pPc = "start"
    /\ tokenSet \in BOOLEAN
    /\ lines \in Markdowns
    /\ lineIdx = 1
    /\ blocks = <<>>
    /\ publish_log = <<>>
    /\ attempt = 1
    /\ upload_id = FALSE
    /\ chunk_idx = 1
    /\ appendCalls = <<>>
    /\ acked = <<>>
    /\ calls = <<>>
    /\ pError = NoError
    /\ pFiles = {}

\* publish_markdown at its call of append_blocks, for a markdown of n
\* bullet lines: n blocks, an empty log, the page created
PAppendInit ==
    /\ pPc = "append"
    /\ tokenSet = TRUE
    /\ \E n \in 0..MaxBlocks :
          /\ lines = [i \in 1..n |-> "bullet"]
          /\ lineIdx = n + 1
          /\ blocks = [i \in 1..n |-> Block("bulleted_list_item", i, "")]
    /\ publish_log = <<>>
    /\ attempt = 1
    /\ upload_id = FALSE
    /\ chunk_idx = 1
    /\ appendCalls = <<>>
    /\ acked = <<>>
    /\ calls = <<[call |-> "create_page", ref |-> 0, outcome |-> <<200>>]>>
    /\ pError = NoError
    /\ pFiles = {}

\* the run ends in an exception
Abort(kind, chunk) ==
    /\ pPc' = "aborted"
    /\ pError' = [kind |-> kind, chunk |-> chunk]

\* another pass of the loop of request_with_retry
Continue ==
    /\ attempt' = attempt + 1
    /\ UNCHANGED <<pPc, pError>>

\* the next call of request_with_retry starts
NewCall == attempt' = 1

\* publish_markdown up to parse_markdown
PublishMain ==
    /\ pPc = "start"
    /\ IF tokenSet
       THEN pPc' = "parse" /\ UNCHANGED pError
       ELSE Abort("no_token", NoInt)
    /\ UNCHANGED <<tokenSet, lines, lineIdx, blocks, publish_log, attempt,
                   upload_id, chunk_idx, appendCalls, acked, calls, pFiles>>
    /\ PFrame

\* one line of parse_markdown that makes no call, or the start of an upload
ParseLine ==
    /\ pPc = "parse"
    /\ lineIdx <= Len(lines)
    /\ LET kind == lines[lineIdx]
       IN  \/ /\ kind = "heading"
              /\ blocks' = Append(blocks, Block("heading", lineIdx, ""))
              /\ lineIdx' = lineIdx + 1
              /\ UNCHANGED <<pPc, publish_log>>
           \/ /\ kind = "image_external"
              /\ blocks' = Append(blocks, Block("image", lineIdx, "external"))
              /\ publish_log' = Append(publish_log,
                    [event |-> "image_external", target |-> lineIdx])
              /\ lineIdx' = lineIdx + 1
              /\ UNCHANGED pPc
           \/ /\ kind = "image_missing"
              /\ blocks' = Append(blocks, Block("paragraph", lineIdx, "not_found"))
              /\ lineIdx' = lineIdx + 1
              /\ UNCHANGED <<pPc, publish_log>>
           \/ /\ kind = "image_local"
              /\ pPc' = "upload_create"
              /\ UNCHANGED <<blocks, lineIdx, publish_log>>
    /\ NewCall
    /\ upload_id' = FALSE
    /\ UNCHANGED <<tokenSet, lines, chunk_idx, appendCalls, acked, calls, pError, pFiles>>
    /\ PFrame

\* upload_file_to_notion returned: the image block or the fallback paragraph
UploadReturns(id) ==
    /\ blocks' = Append(blocks,
          IF id THEN Block("image", lineIdx, "file_upload")
                ELSE Block("paragraph", lineIdx, "upload_failed"))
    /\ lineIdx' = lineIdx + 1
    /\ pPc' = "parse"
    /\ NewCall
    /\ UNCHANGED pError

\* upload_file_to_notion, step 1: one request of the create call
UploadCreateAttempt ==
    /\ pPc = "upload_create"
    /\ \E r \in Responses, has_id \in BOOLEAN :
          LET d == RetryDecision(attempt, r)
          IN  \/ /\ d = "continue"
                 /\ Continue
                 /\ UNCHANGED <<blocks, lineIdx, publish_log, calls, upload_id>>
              \/ /\ d = "raise"
                 /\ Abort("request_failed", NoInt)
                 /\ calls' = Append(calls, CallEnded("file_upload_create", lineIdx, r))
                 /\ UNCHANGED <<blocks, lineIdx, publish_log, attempt,
                                upload_id>>
              \/ /\ d = "return"
                 /\ calls' = Append(calls, CallEnded("file_upload_create", lineIdx, r))
                 /\ publish_log' = Append(publish_log,
                       [event |-> "file_upload_create", file |-> lineIdx,
                        status_code |-> r.status_code])
                 /\ IF Failed(r.status_code) \/ ~has_id
                    THEN UploadReturns(FALSE) /\ upload_id' = FALSE
                    ELSE /\ pPc' = "upload_send"
                         /\ upload_id' = TRUE
                         /\ NewCall
                         /\ UNCHANGED <<blocks, lineIdx, pError>>
    /\ UNCHANGED <<tokenSet, lines, chunk_idx, appendCalls, acked, pFiles>>
    /\ PFrame

\* upload_file_to_notion, step 2: one request of the send call
UploadSendAttempt ==
    /\ pPc = "upload_send"
    /\ \E r \in Responses :
          LET d == RetryDecision(attempt, r)
          IN  \/ /\ d = "continue"
                 /\ Continue
                 /\ UNCHANGED <<blocks, lineIdx, publish_log, calls>>
              \/ /\ d = "raise"
                 /\ Abort("request_failed", NoInt)
                 /\ calls' = Append(calls, CallEnded("file_upload_send", lineIdx, r))
                 /\ UNCHANGED <<blocks, lineIdx, publish_log, attempt>>
              \/ /\ d = "return"
                 /\ calls' = Append(calls, CallEnded("file_upload_send", lineIdx, r))
                 /\ publish_log' = Append(publish_log,
                       [event |-> "file_upload_send", file |-> lineIdx,
                        status_code |-> r.status_code])
                 /\ IF Failed(r.status_code)
                    THEN UploadReturns(FALSE)
                    ELSE /\ pPc' = "upload_complete"
                         /\ NewCall
                         /\ UNCHANGED <<blocks, lineIdx, pError>>
    /\ UNCHANGED <<tokenSet, lines, upload_id, chunk_idx, appendCalls, acked, pFiles>>
    /\ PFrame

\* upload_file_to_notion, step 3: one request of the complete call; its
\* status does not change the result
UploadCompleteAttempt ==
    /\ pPc = "upload_complete"
    /\ \E r \in Responses :
          LET d == RetryDecision(attempt, r)
          IN  \/ /\ d = "continue"
                 /\ Continue
                 /\ UNCHANGED <<blocks, lineIdx, publish_log, calls>>
              \/ /\ d = "raise"
                 /\ Abort("request_failed", NoInt)
                 /\ calls' = Append(calls, CallEnded("file_upload_complete", lineIdx, r))
                 /\ UNCHANGED <<blocks, lineIdx, publish_log, attempt>>
              \/ /\ d = "return"
                 /\ calls' = Append(calls, CallEnded("file_upload_complete", lineIdx, r))
                 /\ publish_log' = Append(publish_log,
                       [event |-> "file_upload_complete", file |-> lineIdx,
                        status_code |-> r.status_code])
                 /\ UploadReturns(TRUE)
    /\ UNCHANGED <<tokenSet, lines, upload_id, chunk_idx, appendCalls, acked, pFiles>>
    /\ PFrame

\* parse_markdown returns; create_child_page begins
ParseReturn ==
    /\ pPc = "parse"
    /\ lineIdx > Len(lines)
    /\ pPc' = "create_page"
    /\ NewCall
    /\ UNCHANGED <<tokenSet, lines, lineIdx, blocks, publish_log, upload_id, chunk_idx,
                   appendCalls, acked, calls, pError, pFiles>>
    /\ PFrame

\* create_child_page: one request of the page creation call
CreatePageAttempt ==
    /\ pPc = "create_page"
    /\ \E r \in Responses :
          LET d == RetryDecision(attempt, r)
          IN  \/ /\ d = "continue"
                 /\ Continue
                 /\ UNCHANGED calls
              \/ /\ d = "raise"
                 /\ Abort("request_failed", NoInt)
                 /\ calls' = Append(calls, CallEnded("create_page", 0, r))
                 /\ UNCHANGED attempt
              \/ /\ d = "return"
                 /\ calls' = Append(calls, CallEnded("create_page", 0, r))
                 /\ IF CreateFailed(r.status_code)
                    THEN Abort("create_page_failed", NoInt)
                    ELSE pPc' = "append" /\ UNCHANGED pError
                 /\ NewCall
    /\ chunk_idx' = 1
    /\ UNCHANGED <<tokenSet, lines, lineIdx, blocks, publish_log, upload_id,
                   appendCalls, acked, pFiles>>
    /\ PFrame

\* append_blocks: one request of the call for chunk chunk_idx
AppendAttempt ==
    /\ pPc = "append"
    /\ chunk_idx <= Len(chunked(blocks, ChunkSize))
    /\ LET chunk == chunked(blocks, ChunkSize)[chunk_idx]
       IN  /\ appendCalls' = IF attempt = 1 THEN Append(appendCalls, chunk)
                               ELSE appendCalls
           /\ \E r \in Responses :
                 LET d == RetryDecision(attempt, r)
                 IN  \/ /\ d = "continue"
                        /\ Continue
                        /\ UNCHANGED <<publish_log, calls, acked, chunk_idx>>
                     \/ /\ d = "raise"
                        /\ Abort("request_failed", NoInt)
                        /\ calls' = Append(calls, CallEnded("append_chunk", chunk_idx, r))
                        /\ UNCHANGED <<publish_log, acked, chunk_idx, attempt>>
                     \/ /\ d = "return"
                        /\ calls' = Append(calls, CallEnded("append_chunk", chunk_idx, r))
                        /\ publish_log' = Append(publish_log,
                              [event |-> "append_chunk", chunk_index |-> chunk_idx,
                               chunk_size |-> Len(chunk),
                               status_code |-> r.status_code])
                        /\ acked' = IF r.status_code < 300 THEN Append(acked, chunk_idx)
                                      ELSE acked
                        /\ IF AppendFailed(r.status_code)
                           THEN Abort("append_failed", <<chunk_idx>>)
                                /\ UNCHANGED chunk_idx
                           ELSE /\ chunk_idx' = chunk_idx + 1
                                /\ UNCHANGED <<pPc, pError>>
                        /\ NewCall
    /\ UNCHANGED <<tokenSet, lines, lineIdx, blocks, upload_id, pFiles>>
    /\ PFrame

\* append_blocks returns after the last chunk
AppendReturn ==
    /\ pPc = "append"
    /\ chunk_idx > Len(chunked(blocks, ChunkSize))
    /\ pPc' = "write"
    /\ UNCHANGED <<tokenSet, lines, lineIdx, blocks, publish_log, attempt,
                   upload_id, chunk_idx, appendCalls, acked, calls, pError, pFiles>>
    /\ PFrame

\* publish_markdown writes notion_page_meta.json and notion_publish_log.json
WriteArtifacts ==
    /\ pPc = "write"
    /\ pFiles' = pFiles \cup {"notion_page_meta.json", "notion_publish_log.json"}
    /\ pPc' = "done"
    /\ UNCHANGED <<tokenSet, lines, lineIdx, blocks, publish_log, attempt,
                   upload_id, chunk_idx, appendCalls, acked, calls, pError>>
    /\ PFrame

\* ================================================= figure stage: inputs
MaxImages == 2
MaxPages == 13

\* fallback_pages = min(12, max(0, pages_count))
FallbackPageCap == 12

ImageTypes == {"image", "mask", "smask", "stencil"}
Dims == {100, 160, 300, 420, 500, 1000}
FileSizes == {4096, 8192, 12288, 50000, 61440}
ImagePages == {1, 2, 3, 5}

\* the rows of `pdfimages -list` that should_keep_image is tried on
ImageRows == [type : ImageTypes, width : Dims, height : Dims, page : ImagePages]

\* the embedded images extract_figures is tried on: a figure, an icon, a
\* front-matter logo and a mask, each with or without its extracted file
SampleRows ==
    {[type |-> "image", width |-> 500, height |-> 500, page |-> 5],
     [type |-> "image", width |-> 100, height |-> 100, page |-> 3],
     [type |-> "smask", width |-> 500, height |-> 500, page |-> 5]}

EmbeddedImages ==
    [row : SampleRows, file : BOOLEAN, size : {61440}, hash : {1, 2}]

\* ------------------------------------------- figure stage: pure helpers
Max(a, b) == IF a >= b THEN a ELSE b

Verdict(keep, reason) == [keep |-> keep, reason |-> reason]

\* should_keep_image; aspect = max / float(min) > 6.0 is max > 6 * min
should_keep_imageAreaFirst(row, file_size) ==
    LET width == row.width
        height == row.height
        area == width * height
    IN  IF row.type \in {"mask", "smask", "stencil"}
        THEN Verdict(FALSE, "mask_or_stencil")
        ELSE IF area < 60000
        THEN Verdict(FALSE, "too_small_area")
        ELSE IF width < 160 \/ height < 160
        THEN Verdict(FALSE, "too_small_dimensions")
        ELSE IF Min(width, height) = 0
        THEN Verdict(FALSE, "invalid_dimensions")
        ELSE IF Max(width, height) > 6 * Min(width, height)
        THEN Verdict(FALSE, "extreme_aspect_ratio")
        ELSE IF file_size < 8192
        THEN Verdict(FALSE, "too_small_file")
        ELSE IF row.page <= 2 /\ width <= 420 /\ height <= 420 /\ file_size < 50000
        THEN Verdict(FALSE, "likely_decorative_frontmatter")
        ELSE Verdict(TRUE, "kept")

should_keep_image(row, file_size) ==
    LET width == row.width
        height == row.height
        area == width * height
    IN  IF row.type \in {"mask", "smask", "stencil"}
        THEN Verdict(FALSE, "mask_or_stencil")
        ELSE IF width < 160 \/ height < 160
        THEN Verdict(FALSE, "too_small_dimensions")
        ELSE IF area < 60000
        THEN Verdict(FALSE, "too_small_area")
        ELSE IF Min(width, height) = 0
        THEN Verdict(FALSE, "invalid_dimensions")
        ELSE IF Max(width, height) > 6 * Min(width, height)
        THEN Verdict(FALSE, "extreme_aspect_ratio")
        ELSE IF file_size < 8192
        THEN Verdict(FALSE, "too_small_file")
        ELSE IF row.page <= 2 /\ width <= 420 /\ height <= 420 /\ file_size < 50000
        THEN Verdict(FALSE, "likely_decorative_frontmatter")
        ELSE Verdict(TRUE, "kept")

\* if img_hash in seen_hashes
DuplicateHashNever(img_hash, hashes) == FALSE

DuplicateHash(img_hash, hashes) == img_hash \in hashes

\* ------------------------------------------------ figure stage: actions
KInit ==
    /\ kRow \in ImageRows
    /\ kFileSize \in FileSizes
    /\ kResult = <<>>

\* one call of should_keep_image
KeepImage ==
    /\ kResult = <<>>
    /\ kResult' = <<should_keep_image(kRow, kFileSize)>>
    /\ UNCHANGED <<kRow, kFileSize>>
    /\ KFrame

FInit ==
    /\ fPc = "list"
    /\ fImages \in UNION {[1..n -> EmbeddedImages] : n \in 0..MaxImages}
    /\ fPdfPages \in 1..MaxPages
    /\ pages_count \in {0, fPdfPages}
    /\ rows = <<>>
    /\ file_by_index = {}
    /\ fIdx = 1
    /\ kept = <<>>
    /\ rejected = <<>>
    /\ seen_hashes = {}
    /\ fallback_used = FALSE

\* extract_figures up to the loop: pdfimages -list, pdfimages -png
ListImages ==
    /\ fPc = "list"
    /\ \E list_result \in {"ok", "fail", "timeout"},
          extract_result \in {"ok", "fail", "timeout"} :
          IF list_result = "timeout" \/ extract_result = "timeout"
          THEN /\ fPc' = "crashed"
               /\ UNCHANGED <<rows, file_by_index>>
          ELSE /\ fPc' = "row"
               /\ rows' = IF list_result = "ok"
                          THEN [i \in DOMAIN fImages |->
                                   [num |-> i, type |-> fImages[i].row.type,
                                    width |-> fImages[i].row.width,
                                    height |-> fImages[i].row.height,
                                    page |-> fImages[i].row.page]]
                          ELSE <<>>
               /\ file_by_index' = IF extract_result = "ok"
                                   THEN {i \in DOMAIN fImages : fImages[i].file}
                                   ELSE {}
    /\ UNCHANGED <<fImages, fPdfPages, pages_count, fIdx, kept, rejected, seen_hashes,
                   fallback_used>>
    /\ FFrame

\* one pass of the loop over rows
FilterRow ==
    /\ fPc = "row"
    /\ fIdx <= Len(rows)
    /\ LET row == rows[fIdx]
           idx == row.num
           v == should_keep_image(row, fImages[idx].size)
       IN  IF idx \notin file_by_index
           THEN /\ rejected' = Append(rejected,
                      [num |-> idx, reason |-> "missing_output_file"])
                /\ UNCHANGED <<kept, seen_hashes>>
           ELSE IF ~v.keep
           THEN /\ rejected' = Append(rejected, [num |-> idx, reason |-> v.reason])
                /\ UNCHANGED <<kept, seen_hashes>>
           ELSE IF DuplicateHash(fImages[idx].hash, seen_hashes)
           THEN /\ rejected' = Append(rejected,
                      [num |-> idx, reason |-> "duplicate_hash"])
                /\ UNCHANGED <<kept, seen_hashes>>
           ELSE /\ seen_hashes' = seen_hashes \cup {fImages[idx].hash}
                /\ kept' = Append(kept,
                      [figure_id |-> Len(kept) + 1, source |-> "embedded_image",
                       page |-> row.page])
                /\ UNCHANGED rejected
    /\ fIdx' = fIdx + 1
    /\ UNCHANGED <<fPc, fImages, fPdfPages, pages_count, rows, file_by_index,
                   fallback_used>>
    /\ FFrame

\* after the loop: the page-render fallback, the cleanup, the return
FallbackAndReturn ==
    /\ fPc = "row"
    /\ fIdx > Len(rows)
    /\ LET fallback_pages == Min(FallbackPageCap, Max(0, pages_count))
       IN  IF Len(kept) = 0 /\ fallback_pages > 0
           THEN /\ fallback_used' = TRUE
                /\ \E render_result \in {"ok", "fail", "timeout"} :
                      /\ fPc' = IF render_result = "timeout" THEN "crashed"
                                ELSE "returned"
                      /\ kept' = IF render_result = "ok"
                                 THEN [i \in 1..Min(fallback_pages, fPdfPages) |->
                                          [figure_id |-> i, source |-> "page_render",
                                           page |-> i]]
                                 ELSE kept
           ELSE /\ fPc' = "returned"
                /\ UNCHANGED <<kept, fallback_used>>
    /\ UNCHANGED <<fImages, fPdfPages, pages_count, rows, file_by_index, fIdx, rejected,
                   seen_hashes>>
    /\ FFrame

\* =============================================== equation stage: inputs
MaxHigh == 12

\* extract_equation_candidates(pages, limit=12)
EquationLimit == 12

\* "∂ω/∂t + u·∇ω = ν∇²ω (4)" as code points
TargetLine ==
    <<8706, 969, 47, 8706, 116, 32, 43, 32, 117, 183, 8711, 969, 32, 61, 32,
      957, 8711, 178, 969, 32, 40, 52, 41>>

\* the same line as pdftotext may give it: indented, with a double space
TargetSpaced ==
    <<32, 32, 8706, 969, 47, 8706, 116, 32, 43, 32, 117, 183, 8711, 969, 32, 32,
      61, 32, 957, 8711, 178, 969, 32, 40, 52, 41>>

\* the same line with a capital U
TargetUpper ==
    <<8706, 969, 47, 8706, 116, 32, 43, 32, 85, 183, 8711, 969, 32, 61, 32,
      957, 8711, 178, 969, 32, 40, 52, 41>>

\* "abcdefg = 12"
PlainLine == <<97, 98, 99, 100, 101, 102, 103, 32, 61, 32, 49, 50>>

\* "partial u/<letter> = ∂ (1)", a different line for every k
HighLine(k) ==
    <<112, 97, 114, 116, 105, 97, 108, 32, 117, 47, 96 + k, 32, 61, 32, 8706, 32,
      40, 49, 41>>

\* "∂u=1": too short to be scanned
ShortLine == <<8706, 117, 61, 49>>

\* "∂=" followed by 219 letters x: too long to be scanned
LongLine == [i \in 1..221 |-> IF i = 1 THEN 8706 ELSE IF i = 2 THEN 61 ELSE 120]

TailLines == {TargetLine, TargetSpaced, TargetUpper, PlainLine, ShortLine, LongLine}

\* the documents: a page of n high-scoring lines and a page of up to two
\* more lines, in either order
EquationDocs ==
    {IF highFirst THEN <<[k \in 1..n |-> HighLine(k)], tail>>
                  ELSE <<tail, [k \in 1..n |-> HighLine(k)]>> :
        n \in 0..MaxHigh, tail \in UNION {[1..m -> TailLines] : m \in 0..2},
        highFirst \in BOOLEAN}

\* ------------------------------------------ equation stage: pure helpers
\* \s
IsSpace(c) == c \in {9, 10, 11, 12, 13, 32}

\* every run of whitespace becomes one space: the last character of a run
\* is kept, as a space
CollapseSpaces(s) ==
    LET pairs == [i \in DOMAIN s |-> <<s[i], IF i < Len(s) THEN s[i + 1] ELSE 0>>]
        last == SelectSeq(pairs, LAMBDA p : ~IsSpace(p[1]) \/ ~IsSpace(p[2]))
    IN  [i \in DOMAIN last |-> IF IsSpace(last[i][1]) THEN 32 ELSE last[i][1]]

\* str.strip() of a string whose whitespace runs are single spaces
Strip(s) ==
    LET a == IF s # <<>> /\ Head(s) = 32 THEN Tail(s) ELSE s
    IN  IF a # <<>> /\ a[Len(a)] = 32 THEN SubSeq(a, 1, Len(a) - 1) ELSE a

\* re.sub(r"\s+", " ", text).strip()
clean_whitespace(text) == Strip(CollapseSpaces(text))

\* re.sub(r"\s+", "", line.lower())
Normalized(line) == Lower(SelectSeq(line, LAMBDA c : ~IsSpace(c)))

\* token in lower
Contains(s, token) ==
    \E i \in 1..(Len(s) - Len(token) + 1) : SubSeq(s, i, i + Len(token) - 1) = token

\* "d/dt", "partial", "nabla", "laplac", "jacobian", "cfl", "reynolds"
OperatorKeywords ==
    {<<100, 47, 100, 116>>, <<112, 97, 114, 116, 105, 97, 108>>,
     <<110, 97, 98, 108, 97>>, <<108, 97, 112, 108, 97, 99>>,
     <<106, 97, 99, 111, 98, 105, 97, 110>>, <<99, 102, 108>>,
     <<114, 101, 121, 110, 111, 108, 100, 115>>}

\* "omega", "psi", "eta", "nu", "u", "v", "h"
PhysicsTokens ==
    {<<111, 109, 101, 103, 97>>, <<112, 115, 105>>, <<101, 116, 97>>, <<110, 117>>,
     <<117>>, <<118>>, <<104>>}

\* EQUATION_SYMBOLS: [∂∇ΔωψνηΣ]
EQUATION_SYMBOLS == {8706, 8711, 916, 969, 968, 957, 951, 931}

\* [\+\-\*/]
ArithmeticOperators == {43, 45, 42, 47}

IsDigit(c) == c >= 48 /\ c <= 57

AllDigits(s) == s # <<>> /\ \A i \in DOMAIN s : IsDigit(s[i])

\* \d+(\.\d+)?
IsNumber(s) ==
    \/ AllDigits(s)
    \/ \E i \in DOMAIN s :
          /\ s[i] = 46
          /\ AllDigits(SubSeq(s, 1, i - 1))
          /\ AllDigits(SubSeq(s, i + 1, Len(s)))

\* re.search(r"\(\d+(\.\d+)?\)$", line)
HasTrailingNumber(line) ==
    /\ line # <<>>
    /\ line[Len(line)] = 41
    /\ \E i \in DOMAIN line :
          line[i] = 40 /\ IsNumber(SubSeq(line, i + 1, Len(line) - 1))

\* the score of a cleaned line
EquationScoreNoSymbols(line) ==
    LET lower == Lower(line)
    IN  (IF \E t \in OperatorKeywords : Contains(lower, t) THEN 2 ELSE 0)
      + (IF \E t \in PhysicsTokens : Contains(lower, t) THEN 1 ELSE 0)
      + (IF HasTrailingNumber(line) THEN 2 ELSE 0)
      + (IF \E i \in DOMAIN line : line[i] \in ArithmeticOperators THEN 1 ELSE 0)

EquationScore(line) ==
    LET lower == Lower(line)
    IN  (IF \E t \in OperatorKeywords : Contains(lower, t) THEN 2 ELSE 0)
      + (IF \E t \in PhysicsTokens : Contains(lower, t) THEN 1 ELSE 0)
      + (IF HasTrailingNumber(line) THEN 2 ELSE 0)
      + (IF \E i \in DOMAIN line : line[i] \in EQUATION_SYMBOLS THEN 2 ELSE 0)
      + (IF \E i \in DOMAIN line : line[i] \in ArithmeticOperators THEN 1 ELSE 0)

\* if not line or "=" not in line / if len(line) < 8 or len(line) > 220
Scannable(line) ==
    /\ line # <<>>
    /\ \E i \in DOMAIN line : line[i] = 61
    /\ Len(line) >= 8
    /\ Len(line) <= 220

\* candidates.sort(key=lambda item: (-score, page)); return candidates[:limit]
RankedCandidatesFirstFound(cands, limit) ==
    [i \in 1..Min(limit, Len(cands)) |-> cands[i]]

RankedCandidates(cands, limit) ==
    LET keyed == [i \in DOMAIN cands |->
                     [key |-> <<8 - cands[i].score, cands[i].page>>, item |-> cands[i]]]
        sorted == SortedByKey(keyed)
    IN  [i \in 1..Min(limit, Len(sorted)) |-> sorted[i].item]

\* ----------------------------------------------- equation stage: actions
EInit ==
    /\ ePc = "scan"
    /\ ePages \in EquationDocs
    /\ page_idx = 1
    /\ eLine = 1
    /\ candidates = <<>>
    /\ seen = {}
    /\ eReturned = <<>>

\* one line of one page, or the step to the next page
ScanLine ==
    /\ ePc = "scan"
    /\ page_idx <= Len(ePages)
    /\ IF eLine > Len(ePages[page_idx])
       THEN /\ page_idx' = page_idx + 1
            /\ eLine' = 1
            /\ UNCHANGED <<candidates, seen>>
       ELSE LET line == clean_whitespace(ePages[page_idx][eLine])
                score == EquationScore(line)
                normalized == Normalized(line)
            IN  /\ eLine' = eLine + 1
                /\ UNCHANGED page_idx
                /\ IF Scannable(line) /\ score >= 2 /\ normalized \notin seen
                   THEN /\ seen' = seen \cup {normalized}
                        /\ candidates' = Append(candidates,
                              [equation |-> line, page |-> page_idx, score |-> score])
                   ELSE UNCHANGED <<candidates, seen>>
    /\ UNCHANGED <<ePc, ePages, eReturned>>
    /\ EFrame

\* the sort and the return of the first limit candidates
RankAndReturn ==
    /\ ePc = "scan"
    /\ page_idx > Len(ePages)
    /\ eReturned' = RankedCandidates(candidates, EquationLimit)
    /\ ePc' = "returned"
    /\ UNCHANGED <<ePages, page_idx, eLine, candidates, seen>>
    /\ EFrame

\* =============================================== evidence stage: inputs
MaxCorpus == 2

\* quote[:280], abstract_text[:280]
QuoteLimit == 280

\* equations[:5]
KeyEquationLimit == 5

\* unique[:14]
AnchorLimit == 14

\* "No extractable governing equation found in machine-readable text."
NoEquationNotice ==
    <<78, 111, 32, 101, 120, 116, 114, 97, 99, 116, 97, 98, 108, 101, 32,
      103, 111, 118, 101, 114, 110, 105, 110, 103, 32, 101, 113, 117, 97,
      116, 105, 111, 110, 32, 102, 111, 117, 110, 100, 32, 105, 110, 32,
      109, 97, 99, 104, 105, 110, 101, 45, 114, 101, 97, 100, 97, 98, 108,
      101, 32, 116, 101, 120, 116, 46>>

\* "No evidence text extracted."
NoEvidenceNotice ==
    <<78, 111, 32, 101, 118, 105, 100, 101, 110, 99, 101, 32, 116, 101, 120,
      116, 32, 101, 120, 116, 114, 97, 99, 116, 101, 100, 46>>

\* sentence i of the pool, 25 characters
Sentence(i) == [j \in 1..25 |-> IF j = 1 THEN 64 + i ELSE 120]

\* sentence i of a pool whose sentences differ only after character 280
LongSentence(i) == [j \in 1..(QuoteLimit + 1) |-> IF j <= QuoteLimit THEN 97 ELSE 64 + i]

\* what a pass returns: n sentences with different normalized texts
Picked(n, long) ==
    [i \in 1..n |-> [text |-> IF long THEN LongSentence(i) ELSE Sentence(i),
                     page |-> 1]]

\* the numbers of sentences the four passes return (limits 2, 3, 3, 2)
PassProfiles ==
    {[objective |-> 0, methods |-> 0, findings |-> 0, limitations |-> 0],
     [objective |-> 1, methods |-> 0, findings |-> 0, limitations |-> 0],
     [objective |-> 2, methods |-> 3, findings |-> 3, limitations |-> 2]}

\* equation_candidates.json as extract_assets writes it: n candidates
EquationFile(n) ==
    [i \in 1..n |-> [equation |-> <<120, 32, 61, 32, 48 + i, 32, 40, 49, 41>>,
                     page |-> 1, score |-> 3]]

EquationCounts == {0, 1, 6}

\* metadata.get("vancouver_citation"), metadata.get("title"): absent or set
MaybeText == {<<>>, <<84>>}

\* ------------------------------------------ evidence stage: pure helpers
Truncate(s, n) == SubSeq(s, 1, Min(n, Len(s)))

\* a or b
Or(a, b) == IF a # <<>> THEN a ELSE b

\* add_items(items, tag, key_name)
RECURSIVE add_items(_, _)
add_items(texts, tag) ==
    IF texts = <<>> THEN <<>>
    ELSE LET quote == clean_whitespace(Head(texts).text)
         IN  (IF quote = <<>> THEN <<>>
              ELSE <<[tag |-> tag, page |-> Head(texts).page,
                      quote |-> Truncate(quote, QuoteLimit)]>>)
             \o add_items(Tail(texts), tag)

AnchorKey(anchor) == <<anchor.tag, anchor.page, Lower(anchor.quote)>>

\* the loop over anchors that keeps the first anchor of every key
RECURSIVE UniqueAnchors(_, _)
UniqueAnchors(anchors, seenKeys) ==
    IF anchors = <<>> THEN <<>>
    ELSE IF AnchorKey(Head(anchors)) \in seenKeys
         THEN UniqueAnchors(Tail(anchors), seenKeys)
         ELSE <<Head(anchors)>>
              \o UniqueAnchors(Tail(anchors), seenKeys \cup {AnchorKey(Head(anchors))})

AsTexts(equations) ==
    [i \in DOMAIN equations |-> [text |-> equations[i].equation,
                                 page |-> equations[i].page]]

build_evidence_anchors(objective, methods, findings, limitations, equations) ==
    LET anchors == add_items(objective, "objective")
                   \o add_items(methods, "methods")
                   \o add_items(findings, "findings")
                   \o add_items(limitations, "limitations")
                   \o add_items(AsTexts(equations), "equation")
    IN  Truncate(UniqueAnchors(anchors, {}), AnchorLimit)

\* key_equations = equations[:5], or the one notice entry
KeyEquationsNoFallback(equations) == Truncate(equations, KeyEquationLimit)

KeyEquations(equations) ==
    IF Truncate(equations, KeyEquationLimit) # <<>>
    THEN Truncate(equations, KeyEquationLimit)
    ELSE <<[equation |-> NoEquationNotice, page |-> 1, score |-> 0]>>

\* if not evidence: the one fallback anchor
Evidence(anchors, abstract_text) ==
    IF anchors # <<>> THEN anchors
    ELSE <<[tag |-> "fallback", page |-> 1,
            quote |-> IF abstract_text # <<>> THEN Truncate(abstract_text, QuoteLimit)
                      ELSE NoEvidenceNotice]>>

\* format_paragraph_from_sentences: the fallback text or the joined sentences
Paragraph(items) == IF items = <<>> THEN "fallback" ELSE "sentences"

\* the summary_record of one paper
SummaryRecord(profile, long, equations, abstract_text, vancouver, meta_title) ==
    LET objective == Picked(profile.objective, long)
        methods == Picked(profile.methods, long)
        findings == Picked(profile.findings, long)
        limitations == Picked(profile.limitations, long)
        key_equations == KeyEquations(equations)
        evidence == Evidence(build_evidence_anchors(objective, methods, findings,
                                                    limitations, key_equations),
                             abstract_text)
        title == Or(meta_title, Or(<<102, 46, 112, 100, 102>>, <<112>>))
    IN  [objective |-> Paragraph(objective),
         methods |-> Paragraph(methods),
         findings |-> Paragraph(findings),
         limitations |-> Paragraph(limitations),
         abstract_excerpt |-> abstract_text,
         key_equations |-> key_equations,
         evidence_anchors |-> evidence,
         citation |-> Or(vancouver, title)]

\* the validation block
Validation(items) ==
    [all_have_citations |-> \A i \in DOMAIN items : items[i].citation # <<>>,
     all_have_evidence |-> \A i \in DOMAIN items : Len(items[i].evidence_anchors) > 0,
     all_have_equation_or_fallback |->
         \A i \in DOMAIN items : Len(items[i].key_equations) > 0]

\* ----------------------------------------------- evidence stage: actions
VInit ==
    /\ vPc = "loop"
    /\ vTotal \in 0..MaxCorpus
    /\ vSummaries = <<>>
    /\ validation = <<>>
    /\ vWritten = FALSE

\* the loop body for one paper that has metadata.json, from the pages on
SummarizeOne ==
    /\ vPc = "loop"
    /\ Len(vSummaries) < vTotal
    /\ \E profile \in PassProfiles, long \in BOOLEAN, n \in EquationCounts,
          abstract_text \in MaybeText, vancouver \in MaybeText, meta_title \in MaybeText :
          /\ (abstract_text = <<>>) => (profile.objective = 0)
          /\ vSummaries' = Append(vSummaries,
                SummaryRecord(profile, long, EquationFile(n), abstract_text,
                              vancouver, meta_title))
    /\ UNCHANGED <<vPc, vTotal, validation, vWritten>>
    /\ VFrame

\* after the loop: the output with its validation block is written
WriteCorpus ==
    /\ vPc = "loop"
    /\ Len(vSummaries) = vTotal
    /\ validation' = <<Validation(vSummaries)>>
    /\ vWritten' = TRUE
    /\ vPc' = "done"
    /\ UNCHANGED <<vTotal, vSummaries>>
    /\ VFrame

\* ================================================ report stage: inputs
MaxComposed == 2
MaxClock == 3
MaxRuns == 2

\* "Tsunami Vortices"
TitleWaves ==
    <<84, 115, 117, 110, 97, 109, 105, 32, 86, 111, 114, 116, 105, 99, 101, 115>>

\* "  --A b__C--  "
TitlePunctuated == <<32, 32, 45, 45, 65, 32, 98, 95, 95, 67, 45, 45, 32, 32>>

\* "ÉK" with the Kelvin sign U+212A
TitleKelvin == <<201, 8490>>

\* "Finite difference RK4", "spectral FFT", "LBM flux"
MethodsFd ==
    <<70, 105, 110, 105, 116, 101, 32, 100, 105, 102, 102, 101, 114, 101, 110, 99,
      101, 32, 82, 75, 52>>
MethodsSpectral == <<115, 112, 101, 99, 116, 114, 97, 108, 32, 70, 70, 84>>
MethodsLbm == <<76, 66, 77, 32, 102, 108, 117, 120>>

PaperJson(has_title, title, has_citation, citation_number, methods) ==
    [is_dict |-> TRUE, has_title |-> has_title, title |-> title,
     has_citation |-> has_citation, citation_number |-> citation_number,
     methods |-> methods]

\* the entries of the papers list: summaries with and without a title or a
\* citation number, two with the same title, and an entry that is no object
PaperEntries ==
    {PaperJson(TRUE, TitleWaves, TRUE, 1, MethodsFd),
     PaperJson(TRUE, TitleWaves, TRUE, 2, <<>>),
     PaperJson(FALSE, <<>>, TRUE, 12, MethodsSpectral),
     PaperJson(TRUE, TitlePunctuated, FALSE, 0, <<>>),
     PaperJson(TRUE, TitleKelvin, TRUE, 3, MethodsLbm),
     [PaperJson(FALSE, <<>>, FALSE, 0, <<>>) EXCEPT !.is_dict = FALSE]}

\* ------------------------------------------ report stage: pure helpers
\* str.lower() of one character: ASCII, and the characters of the titles
\* whose lower case is another code point or two
LowerOf(c) ==
    IF c = 304 THEN <<105, 775>>
    ELSE IF c = 8490 THEN <<107>>
    ELSE IF c = 201 THEN <<233>>
    ELSE <<LowerChar(c)>>

str_lower(s) == Flatten([i \in DOMAIN s |-> LowerOf(s[i])])

\* [a-z0-9]
IsSlugChar(c) == (c >= 97 /\ c <= 122) \/ (c >= 48 /\ c <= 57)

\* re.sub(r"[^a-z0-9]+", "-", s): the last character of every run of other
\* characters is kept, as a hyphen
HyphenateRuns(s) ==
    LET pairs == [i \in DOMAIN s |-> <<s[i], IF i < Len(s) THEN s[i + 1] ELSE 97>>]
        last == SelectSeq(pairs, LAMBDA p : IsSlugChar(p[1]) \/ IsSlugChar(p[2]))
    IN  [i \in DOMAIN last |-> IF IsSlugChar(last[i][1]) THEN last[i][1] ELSE 45]

\* str.strip("-")
StripHyphens(s) ==
    LET inner == {i \in DOMAIN s : s[i] # 45}
    IN  IF inner = {} THEN <<>>
        ELSE SubSeq(s, CHOOSE i \in inner : \A j \in inner : i <= j,
                       CHOOSE i \in inner : \A j \in inner : i >= j)

anchor_slug(text) == StripHyphens(HyphenateRuns(str_lower(text)))

RECURSIVE Digits(_)
Digits(n) == IF n < 10 THEN <<48 + n>> ELSE Digits(n \div 10) \o <<48 + (n % 10)>>

\* f"{n:02d}"
TwoDigits(n) == IF n < 10 THEN <<48, 48 + n>> ELSE Digits(n)

\* int(paper.get("citation_number", 0))
CitationOf(paper) == IF paper.has_citation THEN paper.citation_number ELSE 0

\* paper.get("title", "Untitled"), as str
TitleOf(paper) ==
    IF paper.has_title THEN paper.title
    ELSE <<85, 110, 116, 105, 116, 108, 101, 100>>

\* "Paper "
PaperWord == <<80, 97, 112, 101, 114, 32>>

\* heading = f"Paper {int(...):02d}: {paper.get('title', 'Untitled')}"
TocHeading(paper) ==
    PaperWord \o TwoDigits(CitationOf(paper)) \o <<58, 32>> \o TitleOf(paper)

\* heading = f"Paper {citation_no:02d}: {title}"
SectionHeadingUnpadded(paper) ==
    PaperWord \o Digits(CitationOf(paper)) \o <<58, 32>> \o TitleOf(paper)

SectionHeading(paper) ==
    PaperWord \o TwoDigits(CitationOf(paper)) \o <<58, 32>> \o TitleOf(paper)

\* the keywords of method_tags, per tag
MethodKeywords ==
    [fd |-> {<<102, 105, 110, 105, 116, 101, 32, 100, 105, 102, 102, 101, 114, 101,
               110, 99, 101>>, <<97, 114, 97, 107, 97, 119, 97>>, <<114, 107, 52>>},
     spectral |-> {<<115, 112, 101, 99, 116, 114, 97, 108>>, <<102, 102, 116>>},
     fv |-> {<<102, 105, 110, 105, 116, 101, 32, 118, 111, 108, 117, 109, 101>>,
             <<102, 118, 109>>, <<102, 108, 117, 120>>},
     lbm |-> {<<108, 97, 116, 116, 105, 99, 101, 32, 98, 111, 108, 116, 122, 109, 97,
                110, 110>>, <<108, 98, 109>>, <<109, 114, 116>>},
     shallow_water |-> {<<115, 104, 97, 108, 108, 111, 119, 32, 119, 97, 116, 101,
                          114>>, <<116, 115, 117, 110, 97, 109, 105>>}]

\* set(method_tags(text))
method_tags(text) ==
    {tag \in DOMAIN MethodKeywords :
        \E kw \in MethodKeywords[tag] : Contains(str_lower(text), kw)}

\* blob = " ".join([methods, objective, findings, title]); the objective and
\* the findings of the entries are empty
Blob(paper) ==
    paper.methods \o <<32>> \o <<32>> \o <<32>> \o
    (IF paper.has_title THEN paper.title ELSE <<>>)

\* datetime.now(timezone.utc).strftime("%Y-%m-%dT%H:%M:%SZ"): the second
\* the clock is in
utc_now_iso(clock) == clock \div 2

\* one line of the markdown (with the empty line after it): its kind, its
\* fixed wording, and what the line takes from the input or the clock
MdLine(kind, label, text, anchor, value) ==
    [kind |-> kind, label |-> label, text |-> text, anchor |-> anchor, value |-> value]

Fixed(kind, label) == MdLine(kind, label, <<>>, <<>>, 0)

Dicts(entries) == SelectSeq(entries, LAMBDA paper : paper.is_dict)

\* the lines compose_markdown writes for a papers list at a clock reading
compose_markdown(entries, clock) ==
    LET dicts == Dicts(entries)
        count(tag) ==
            Cardinality({i \in DOMAIN dicts : tag \in method_tags(Blob(dicts[i]))})
        subsection(paper) ==
            <<MdLine("h3_paper", "", SectionHeading(paper), <<>>, 0),
              MdLine("citation", "Citation", <<>>, <<>>, CitationOf(paper)),
              MdLine("field", "Methods and numerical approach", paper.methods, <<>>, 0),
              Fixed("field", "Research objective and scope"),
              Fixed("field", "Key findings"),
              Fixed("field", "Limitations"),
              Fixed("field", "Key governing equations"),
              Fixed("field", "Detailed observations linked to repository modules"),
              Fixed("field", "Evidence anchors"),
              Fixed("field", "Figure gallery (scientific images)")>>
    IN  <<Fixed("h1", "Deep Research Report - Tsunami Vorticity Corpus (2026-02-11)"),
          MdLine("generated", "Generated", <<>>, <<>>, utc_now_iso(clock)),
          Fixed("h2", "Executive Synopsis"),
          Fixed("text", "synopsis"),
          MdLine("text", "Corpus processing summary", <<>>, <<>>, Len(dicts)),
          Fixed("h2", "Table of Contents"),
          Fixed("toc", "Executive Synopsis"),
          Fixed("toc", "Corpus Manifest Summary"),
          Fixed("toc", "Cross-Paper Tsunami-Vorticity Synthesis"),
          Fixed("toc", "Per-Paper Summaries"),
          Fixed("toc", "Bibliography"),
          Fixed("toc", "Validation Checklist")>>
        \o [i \in DOMAIN dicts |->
               MdLine("toc_paper", "", TocHeading(dicts[i]),
                      anchor_slug(TocHeading(dicts[i])), 0)]
        \o <<Fixed("h2", "Corpus Manifest Summary"),
             MdLine("metric", "Summarized sections", <<>>, <<>>, Len(dicts)),
             Fixed("h2", "Cross-Paper Tsunami-Vorticity Synthesis"),
             Fixed("h3", "Numerical Method Distribution (keyword-based signal)"),
             MdLine("metric", "Finite difference / Arakawa / RK4", <<>>, <<>>, count("fd")),
             MdLine("metric", "Spectral / FFT", <<>>, <<>>, count("spectral")),
             MdLine("metric", "Finite volume / flux form", <<>>, <<>>, count("fv")),
             MdLine("metric", "LBM / MRT", <<>>, <<>>, count("lbm")),
             MdLine("metric", "Shallow-water / tsunami propagation", <<>>, <<>>,
                    count("shallow_water")),
             Fixed("h3", "Literature-to-Solver Component Map"),
             Fixed("mermaid", "flowchart TD"),
             Fixed("h3", "Equation-to-Code Traceability"),
             Fixed("mermaid", "flowchart LR"),
             Fixed("h3", "Validation and Benchmark Workflow"),
             Fixed("mermaid", "flowchart TD"),
             Fixed("h3", "Sustainability Instrumentation Link"),
             Fixed("mermaid", "flowchart TD"),
             Fixed("h2", "Per-Paper Summaries")>>
        \o Flatten([i \in DOMAIN dicts |-> subsection(dicts[i])])
        \o <<Fixed("h2", "Bibliography")>>
        \o [i \in DOMAIN dicts |->
               MdLine("bibliography", "", <<>>, <<>>, CitationOf(dicts[i]))]
        \o <<Fixed("h2", "Validation Checklist"),
             Fixed("check", "All summaries have citations"),
             Fixed("check", "All summaries have evidence anchors"),
             Fixed("check", "All summaries have equation section or fallback"),
             Fixed("check", "Placeholder scan target")>>

\* ------------------------------------------------ report stage: actions
CInit ==
    /\ cSummary \in UNION {[1..n -> PaperEntries] : n \in 0..MaxComposed}
    /\ cClock = 0
    /\ cRuns = <<>>

\* one run of compose_report.main on the summary
ComposeMarkdown ==
    /\ Len(cRuns) < MaxRuns
    /\ cRuns' = Append(cRuns, compose_markdown(cSummary, cClock))
    /\ UNCHANGED <<cSummary, cClock>>
    /\ CFrame

\* time passes between two runs
ClockTick ==
    /\ cClock < MaxClock
    /\ cClock' = cClock + 1
    /\ UNCHANGED <<cSummary, cRuns>>
    /\ CFrame

\* ================================================ sentence pass: inputs
MaxPool == 3
MaxLimit == 3

\* "This paper studies tsunami vortices."
SentenceObjective ==
    <<84, 104, 105, 115, 32, 112, 97, 112, 101, 114, 32, 115, 116, 117, 100, 105,
    101, 115, 32, 116, 115, 117, 110, 97, 109, 105, 32, 118, 111, 114, 116, 105, 99,
    101, 115, 46>>

\* "THIS PAPER studies tsunami vortices."
SentenceObjectiveUpper ==
    <<84, 72, 73, 83, 32, 80, 65, 80, 69, 82, 32, 115, 116, 117, 100, 105, 101, 115,
    32, 116, 115, 117, 110, 97, 109, 105, 32, 118, 111, 114, 116, 105, 99, 101, 115,
    46>>

\* "We use a spectral solver for the flow."
SentenceMethods ==
    <<87, 101, 32, 117, 115, 101, 32, 97, 32, 115, 112, 101, 99, 116, 114, 97, 108,
    32, 115, 111, 108, 118, 101, 114, 32, 102, 111, 114, 32, 116, 104, 101, 32, 102,
    108, 111, 119, 46>>

\* "Results show good agreement overall."
SentenceFindings ==
    <<82, 101, 115, 117, 108, 116, 115, 32, 115, 104, 111, 119, 32, 103, 111, 111,
    100, 32, 97, 103, 114, 101, 101, 109, 101, 110, 116, 32, 111, 118, 101, 114, 97,
    108, 108, 46>>

\* "The ocean is deep and very wide here."
SentencePlain ==
    <<84, 104, 101, 32, 111, 99, 101, 97, 110, 32, 105, 115, 32, 100, 101, 101, 112,
    32, 97, 110, 100, 32, 118, 101, 114, 121, 32, 119, 105, 100, 101, 32, 104, 101,
    114, 101, 46>>

\* the keywords of extract_objective, extract_methods, extract_findings and
\* extract_limitations
PassKeywords ==
    [objective |->
        {<<116, 104, 105, 115, 32, 112, 97, 112, 101, 114>>,
         <<116, 104, 105, 115, 32, 115, 116, 117, 100, 121>>,
         <<119, 101, 32, 112, 114, 101, 115, 101, 110, 116>>,
         <<119, 101, 32, 105, 110, 118, 101, 115, 116, 105, 103, 97, 116, 101>>,
         <<119, 101, 32, 112, 114, 111, 112, 111, 115, 101>>,
         <<97, 105, 109>>,
         <<111, 98, 106, 101, 99, 116, 105, 118, 101>>},
     methods |->
        {<<109, 101, 116, 104, 111, 100>>,
         <<110, 117, 109, 101, 114, 105, 99, 97, 108>>,
         <<115, 105, 109, 117, 108, 97, 116, 105, 111, 110>>,
         <<102, 105, 110, 105, 116, 101>>,
         <<115, 112, 101, 99, 116, 114, 97, 108>>,
         <<108, 97, 116, 116, 105, 99, 101>>,
         <<115, 111, 108, 118, 101, 114>>,
         <<115, 99, 104, 101, 109, 101>>,
         <<101, 113, 117, 97, 116, 105, 111, 110>>},
     findings |->
        {<<114, 101, 115, 117, 108, 116>>,
         <<115, 104, 111, 119>>,
         <<102, 111, 117, 110, 100>>,
         <<100, 101, 109, 111, 110, 115, 116, 114, 97, 116>>,
         <<97, 103, 114, 101, 101>>,
         <<97, 99, 99, 117, 114, 97, 99, 121>>,
         <<112, 101, 114, 102, 111, 114, 109, 97, 110, 99, 101>>},
     limitations |->
        {<<108, 105, 109, 105, 116, 97, 116, 105, 111, 110>>,
         <<102, 117, 116, 117, 114, 101>>,
         <<104, 111, 119, 101, 118, 101, 114>>,
         <<97, 115, 115, 117, 109, 101>>,
         <<114, 101, 115, 116, 114, 105, 99, 116, 101, 100>>,
         <<99, 104, 97, 108, 108, 101, 110, 103, 101>>,
         <<117, 110, 99, 101, 114, 116, 97, 105, 110>>}]

\* the fallback texts of the four paragraphs
PassFallback ==
    [objective |->
        <<65, 117, 116, 111, 109, 97, 116, 101, 100, 32, 101, 120, 116, 114, 97, 99,
        116, 105, 111, 110, 32, 99, 111, 117, 108, 100, 32, 110, 111, 116, 32, 105,
        115, 111, 108, 97, 116, 101, 32, 97, 32, 99, 108, 101, 97, 114, 32, 111, 98,
        106, 101, 99, 116, 105, 118, 101, 32, 115, 101, 110, 116, 101, 110, 99, 101,
        59, 32, 115, 101, 101, 32, 101, 118, 105, 100, 101, 110, 99, 101, 32, 97,
        110, 99, 104, 111, 114, 115, 32, 102, 111, 114, 32, 115, 111, 117, 114, 99,
        101, 32, 101, 120, 99, 101, 114, 112, 116, 115, 46>>,
     methods |->
        <<77, 101, 116, 104, 111, 100, 45, 115, 112, 101, 99, 105, 102, 105, 99, 32,
        108, 97, 110, 103, 117, 97, 103, 101, 32, 119, 97, 115, 32, 115, 112, 97,
        114, 115, 101, 32, 105, 110, 32, 101, 120, 116, 114, 97, 99, 116, 101, 100,
        32, 116, 101, 120, 116, 59, 32, 116, 104, 105, 115, 32, 115, 117, 109, 109,
        97, 114, 121, 32, 114, 101, 108, 105, 101, 115, 32, 111, 110, 32, 109, 101,
        116, 97, 100, 97, 116, 97, 32, 97, 110, 100, 32, 101, 113, 117, 97, 116,
        105, 111, 110, 32, 115, 110, 105, 112, 112, 101, 116, 115, 46>>,
     findings |->
        <<67, 108, 101, 97, 114, 32, 114, 101, 115, 117, 108, 116, 32, 115, 116, 97,
        116, 101, 109, 101, 110, 116, 115, 32, 119, 101, 114, 101, 32, 110, 111,
        116, 32, 99, 111, 110, 102, 105, 100, 101, 110, 116, 108, 121, 32, 101, 120,
        116, 114, 97, 99, 116, 101, 100, 32, 102, 114, 111, 109, 32, 116, 101, 120,
        116, 59, 32, 99, 111, 110, 99, 108, 117, 115, 105, 111, 110, 115, 32, 115,
        104, 111, 117, 108, 100, 32, 98, 101, 32, 114, 101, 97, 100, 32, 100, 105,
        114, 101, 99, 116, 108, 121, 32, 105, 110, 32, 116, 104, 101, 32, 115, 111,
        117, 114, 99, 101, 32, 80, 68, 70, 46>>,
     limitations |->
        <<69, 120, 112, 108, 105, 99, 105, 116, 32, 108, 105, 109, 105, 116, 97,
        116, 105, 111, 110, 115, 32, 119, 101, 114, 101, 32, 110, 111, 116, 32, 99,
        108, 101, 97, 114, 108, 121, 32, 115, 116, 97, 116, 101, 100, 32, 105, 110,
        32, 101, 120, 116, 114, 97, 99, 116, 101, 100, 32, 116, 101, 120, 116, 59,
        32, 116, 114, 101, 97, 116, 32, 116, 104, 105, 115, 32, 97, 115, 32, 97,
        110, 32, 101, 120, 116, 114, 97, 99, 116, 105, 111, 110, 45, 99, 111, 110,
        102, 105, 100, 101, 110, 99, 101, 32, 99, 97, 118, 101, 97, 116, 46>>]
PoolSentences ==
    {SentenceObjective, SentenceObjectiveUpper, SentenceMethods, SentenceFindings,
     SentencePlain}

\* the pools collect_sentences_with_pages can give: sentences of at least
\* 25 characters, cleaned of extra whitespace, in page order
SentencePools ==
    UNION {[1..n -> [page : {1}, text : PoolSentences]] : n \in 0..MaxPool}

\* ------------------------------------------ sentence pass: pure helpers
\* any(keyword in lower for keyword in lower_keywords)
MatchesKeyword(text, kws) == \E kw \in kws : Contains(Lower(text), Lower(kw))

\* norm = re.sub(r"\s+", " ", text.lower())
SentenceNorm(text) == CollapseSpaces(Lower(text))

\* the first loop of pick_sentences over the remaining items
RECURSIVE KeywordLoop(_, _, _, _)
KeywordLoop(items, kws, max, acc) ==
    IF items = <<>> THEN acc
    ELSE LET item == Head(items)
             norm == SentenceNorm(item.text)
         IN  IF ~MatchesKeyword(item.text, kws) \/ norm \in acc.seen
             THEN KeywordLoop(Tail(items), kws, max, acc)
             ELSE LET acc1 == [acc EXCEPT !.chosen = Append(@, item),
                                          !.seen = @ \cup {norm}]
                  IN  IF Len(acc1.chosen) >= max
                      THEN [acc1 EXCEPT !.returned = TRUE]
                      ELSE KeywordLoop(Tail(items), kws, max, acc1)

\* the second loop of pick_sentences over the remaining items
RECURSIVE PaddingLoop(_, _, _)
PaddingLoop(items, max, acc) ==
    IF items = <<>> THEN acc
    ELSE LET item == Head(items)
             norm == SentenceNorm(item.text)
         IN  IF norm \in acc.seen
             THEN PaddingLoop(Tail(items), max, acc)
             ELSE LET acc1 == [acc EXCEPT !.chosen = Append(@, item),
                                          !.seen = @ \cup {norm}]
                  IN  IF Len(acc1.chosen) >= max THEN acc1
                      ELSE PaddingLoop(Tail(items), max, acc1)

pick_sentencesNoPadding(items, kws, max) ==
    KeywordLoop(items, kws, max,
                [chosen |-> <<>>, seen |-> {}, returned |-> FALSE]).chosen

pick_sentences(items, kws, max) ==
    LET first == KeywordLoop(items, kws, max,
                             [chosen |-> <<>>, seen |-> {}, returned |-> FALSE])
    IN  IF first.returned THEN first.chosen
        ELSE PaddingLoop(items, max, first).chosen

\* " ".join(str(item["text"]) for item in items)
RECURSIVE JoinTexts(_)
JoinTexts(items) ==
    IF items = <<>> THEN <<>>
    ELSE IF Len(items) = 1 THEN items[1].text
    ELSE items[1].text \o <<32>> \o JoinTexts(Tail(items))

format_paragraph_from_sentences(items, fallback) ==
    IF items = <<>> THEN fallback ELSE JoinTexts(items)

\* ------------------------------------------------ sentence pass: actions
GInit ==
    /\ gPc = "ready"
    /\ gPool \in SentencePools
    /\ gPass \in DOMAIN PassKeywords
    /\ gLimit \in 1..MaxLimit
    /\ gChosen = <<>>
    /\ gParagraph = <<>>

\* one extract_* call of summarize_papers and the paragraph made of it
PickSentences ==
    /\ gPc = "ready"
    /\ gChosen' = pick_sentences(gPool, PassKeywords[gPass], gLimit)
    /\ gParagraph' = format_paragraph_from_sentences(gChosen', PassFallback[gPass])
    /\ gPc' = "picked"
    /\ UNCHANGED <<gPool, gPass, gLimit>>
    /\ GFrame

\* =================================================== text split: inputs
MaxSlack == 3

\* rich_text: max_len = 1800
max_len == 1800

\* paragraph_blocks: max_para_len = 1800 * 8
max_para_len == max_len * 8

\* "expression": expr[:1000]
ExpressionLimit == 1000

\* a text of n characters: letters, and a space at the given positions
TextOf(n, spaces) == [i \in 1..n |-> IF i \in spaces THEN 32 ELSE 97 + (i % 26)]

\* lengths around zero, one run, one paragraph block and two blocks
ParagraphLengths ==
    {k * max_len + d : k \in {0, 1, 8, 16}, d \in (-MaxSlack)..MaxSlack} \ (-MaxSlack)..0

\* no space, or one space inside the text where a run or a block ends
SpacePositions(n) ==
    {{}} \cup {{q} : q \in {max_len, max_len + 1, max_para_len, max_para_len + 1}
                              \cap 2..(n - 1)}

\* paragraph texts as parse_markdown joins them: no space at either end
ParagraphTexts ==
    UNION {{TextOf(n, spaces) : spaces \in SpacePositions(n)} : n \in ParagraphLengths}

\* the texts between two $$ markers: lengths around zero and the limit
ExpressionTexts ==
    {TextOf(n, {}) : n \in 0..MaxSlack \cup
                         (ExpressionLimit - MaxSlack)..(ExpressionLimit + MaxSlack)}

\* ---------------------------------------------- text split: pure helpers
RECURSIVE FirstInk(_, _)
FirstInk(s, i) == IF i > Len(s) \/ ~IsSpace(s[i]) THEN i ELSE FirstInk(s, i + 1)

RECURSIVE LastInk(_, _)
LastInk(s, i) == IF i < 1 \/ ~IsSpace(s[i]) THEN i ELSE LastInk(s, i - 1)

\* str.strip()
str_strip(s) == SubSeq(s, FirstInk(s, 1), LastInk(s, Len(s)))

\* for idx in range(0, len(text), size): text[idx : idx + size]
Slices(text, size) ==
    [k \in 1..((Len(text) + size - 1) \div size) |->
        SubSeq(text, (k - 1) * size + 1, Min(k * size, Len(text)))]

\* rich_text: the contents of the text runs
rich_text(text) == Slices(str_strip(text), max_len)

\* paragraph_blocks: one paragraph block per slice, with its runs
paragraph_blocks(text) ==
    LET parts == Slices(str_strip(text), max_para_len)
    IN  [k \in DOMAIN parts |-> [type |-> "paragraph", runs |-> rich_text(parts[k])]]

\* the equation block of parse_markdown for the text between the markers
equation_blocks(text) ==
    LET expr == str_strip(text)
    IN  IF expr = <<>> THEN <<>>
        ELSE <<[type |-> "equation",
                runs |-> <<SubSeq(expr, 1, Min(ExpressionLimit, Len(expr)))>>]>>

\* ------------------------------------------------- text split: actions
TInit ==
    /\ tPc = "ready"
    /\ tKind \in {"paragraph", "equation"}
    /\ tText \in (IF tKind = "paragraph" THEN ParagraphTexts ELSE ExpressionTexts)
    /\ tOut = <<>>

\* blocks.extend(paragraph_blocks(paragraph_text))
SplitParagraph ==
    /\ tPc = "ready"
    /\ tKind = "paragraph"
    /\ tOut' = paragraph_blocks(tText)
    /\ tPc' = "done"
    /\ UNCHANGED <<tKind, tText>>
    /\ TFrame

\* the equation branch of parse_markdown
CutEquation ==
    /\ tPc = "ready"
    /\ tKind = "equation"
    /\ tOut' = equation_blocks(tText)
    /\ tPc' = "done"
    /\ UNCHANGED <<tKind, tText>>
    /\ TFrame

\* ================================================ markdown scan: inputs
MaxScanLines == 3

LineBlank == <<>>
\* "```"
LineFence == <<96, 96, 96>>
\* "$$"
LineDollars == <<36, 36>>
\* "$$x$$"
LineInlineEquation == <<36, 36, 120, 36, 36>>
\* "# T"
LineHeading == <<35, 32, 84>>
\* "#x"
LineHashTag == <<35, 120>>
\* "![](u)"
LineImageLocal == <<33, 91, 93, 40, 117, 41>>
\* "![f](http://u)"
LineImageExternal == <<33, 91, 102, 93, 40, 104, 116, 116, 112, 58, 47, 47, 117, 41>>
\* "- a"
LineBullet == <<45, 32, 97>>
\* "1. a"
LineNumbered == <<49, 46, 32, 97>>
\* " ab"
LinePlain == <<32, 97, 98>>

SampleLines ==
    {LineBlank, LineFence, LineDollars, LineInlineEquation, LineHeading,
     LineHashTag, LineImageLocal, LineImageExternal, LineBullet, LineNumbered,
     LinePlain}

MarkdownTexts == UNION {[1..n -> SampleLines] : n \in 0..MaxScanLines}

\* what can become of a local image: the file is missing; or the upload
\* raises at its first request, returns None when its first request is
\* refused, or returns the upload id after its three requests
UploadOutcomes ==
    {[end |-> "missing", answered |-> 0],
     [end |-> "raised", answered |-> 0],
     [end |-> "none", answered |-> 1],
     [end |-> "id", answered |-> 3]}

\* the events upload_file_to_notion logs, one for each answered request
UploadEvents == <<"file_upload_create", "file_upload_send", "file_upload_complete">>

\* ----------------------------------------- markdown scan: pure helpers
startswith(s, prefix) ==
    Len(s) >= Len(prefix) /\ SubSeq(s, 1, Len(prefix)) = prefix

endswith(s, suffix) ==
    Len(s) >= Len(suffix) /\ SubSeq(s, Len(s) - Len(suffix) + 1, Len(s)) = suffix

Fence == <<96, 96, 96>>
Dollars == <<36, 36>>

\* the length of the run of c at the start of s
LeadingHashes(s) == Cardinality({k \in 1..Len(s) : \A j \in 1..k : s[j] = 35})
LeadingDigits(s) == Cardinality({k \in 1..Len(s) : \A j \in 1..k : IsDigit(s[j])})

\* HEADING_RE = ^(#{1,3})\s+(.*)$
HEADING_RE(s) ==
    LET k == LeadingHashes(s)
    IN  k \in 1..3 /\ Len(s) > k /\ IsSpace(s[k + 1])

\* BULLET_RE = ^-\s+(.*)$
BULLET_RE(s) == Len(s) >= 2 /\ s[1] = 45 /\ IsSpace(s[2])

\* NUMBERED_RE = ^\d+\.\s+(.*)$
NUMBERED_RE(s) ==
    LET d == LeadingDigits(s)
    IN  d >= 1 /\ Len(s) >= d + 2 /\ s[d + 1] = 46 /\ IsSpace(s[d + 2])

\* where "](" can close the alt text of ![alt](target)
AltEnds(s) == {j \in 3..(Len(s) - 2) : s[j] = 93 /\ s[j + 1] = 40}

\* IMAGE_MD_RE = ^!\[(.*?)\]\((.*?)\)$
IMAGE_MD_RE(s) ==
    /\ startswith(s, <<33, 91>>)
    /\ AltEnds(s) # {}
    /\ s[Len(s)] = 41

\* the groups of an IMAGE_MD_RE match: the first "](" ends the alt text
ImageAlt(s) ==
    LET j == CHOOSE a \in AltEnds(s) : \A b \in AltEnds(s) : a <= b
    IN  SubSeq(s, 3, j - 1)

ImageTarget(s) ==
    LET j == CHOOSE a \in AltEnds(s) : \A b \in AltEnds(s) : a <= b
    IN  SubSeq(s, j + 2, Len(s) - 1)

IsExternal(raw_target) ==
    \/ startswith(Lower(raw_target), <<104, 116, 116, 112, 58, 47, 47>>)
    \/ startswith(Lower(raw_target), <<104, 116, 116, 112, 115, 58, 47, 47>>)

\* sep.join(items)
RECURSIVE Join(_, _)
Join(items, sep) ==
    IF items = <<>> THEN <<>>
    ELSE IF Len(items) = 1 THEN items[1]
    ELSE items[1] \o sep \o Join(Tail(items), sep)

\* the lines, each stripped
RECURSIVE StripEach(_)
StripEach(items) ==
    IF items = <<>> THEN <<>> ELSE <<str_strip(Head(items))>> \o StripEach(Tail(items))

\* the stripped line at the 0-based index i
StrippedAt(mdLines, i) == str_strip(mdLines[i + 1])

\* while i < len(lines) and not lines[i].strip().startswith("```"): i += 1
RECURSIVE FenceBody(_, _)
FenceBody(mdLines, i) ==
    IF i < Len(mdLines) /\ ~startswith(StrippedAt(mdLines, i), Fence)
    THEN FenceBody(mdLines, i + 1)
    ELSE i

\* the index after a fenced block that opens at i
FenceEnd(mdLines, i) ==
    LET j == FenceBody(mdLines, i + 1)
    IN  IF j < Len(mdLines) /\ startswith(StrippedAt(mdLines, j), Fence) THEN j + 1 ELSE j

\* while i < len(lines) and lines[i].strip() != "$$": i += 1
RECURSIVE EquationBody(_, _)
EquationBody(mdLines, i) ==
    IF i < Len(mdLines) /\ StrippedAt(mdLines, i) # Dollars
    THEN EquationBody(mdLines, i + 1)
    ELSE i

\* the $$ line at i holds its whole expression
IsInlineEquation(stripped) == endswith(stripped, Dollars) /\ Len(stripped) > 4

\* the index after an equation that opens at i
EquationEnd(mdLines, i) ==
    IF IsInlineEquation(StrippedAt(mdLines, i)) THEN i + 1
    ELSE LET j == EquationBody(mdLines, i + 1)
         IN  IF j < Len(mdLines) /\ StrippedAt(mdLines, j) = Dollars THEN j + 1 ELSE j

\* the text between the markers of an equation that opens at i
EquationText(mdLines, i) ==
    LET stripped == StrippedAt(mdLines, i)
    IN  IF IsInlineEquation(stripped) THEN SubSeq(stripped, 3, Len(stripped) - 2)
        ELSE Join(SelectSeq(SubSeq(mdLines, i + 2, EquationBody(mdLines, i + 1)),
                            LAMBDA clean : str_strip(clean) # <<>>), <<32>>)

\* a line that ends a paragraph
BreaksParagraph(nxt) ==
    \/ nxt = <<>>
    \/ startswith(nxt, Fence)
    \/ startswith(nxt, <<35>>)
    \/ BULLET_RE(nxt) \/ NUMBERED_RE(nxt) \/ IMAGE_MD_RE(nxt)
    \/ startswith(nxt, Dollars)

\* the paragraph loop from index i on
RECURSIVE ParagraphBody(_, _)
ParagraphBody(mdLines, i) ==
    IF i < Len(mdLines) /\ ~BreaksParagraph(StrippedAt(mdLines, i))
    THEN ParagraphBody(mdLines, i + 1)
    ELSE i

\* the paragraph loop entered without stepping over the first line
ParagraphEndFromFirst(mdLines, i) == ParagraphBody(mdLines, i)

\* para_lines = [stripped]; i += 1; then the paragraph loop
ParagraphEnd(mdLines, i) == ParagraphBody(mdLines, i + 1)

\* a block with the source line it was derived from
Sourced(block, i) == [type |-> block.type, runs |-> block.runs, src |-> i]

RECURSIVE SourcedAll(_, _)
SourcedAll(made, i) ==
    IF made = <<>> THEN <<>> ELSE <<Sourced(Head(made), i)>> \o SourcedAll(Tail(made), i)

\* rich_text is called on the text when the block is built
TextBlock(type, text, i) == [type |-> type, runs |-> rich_text(text), src |-> i]

\* "Image file not found: "
NotFoundText == <<73, 109, 97, 103, 101, 32, 102, 105, 108, 101, 32, 110, 111, 116, 32, 102, 111, 117, 110, 100, 58, 32>>
\* "Image upload failed for local file: "
UploadFailedText == <<73, 109, 97, 103, 101, 32, 117, 112, 108, 111, 97, 100, 32, 102, 97, 105, 108, 101, 100, 32, 102, 111, 114, 32, 108, 111, 99, 97, 108, 32, 102, 105, 108, 101, 58, 32>>
\* "figure"
FigureText == <<102, 105, 103, 117, 114, 101>>

\* the image line names a URL: nothing is uploaded
ExternalImage == [end |-> "external", answered |-> 0]

\* the block of an image line whose handling returned
ImageBlock(outcome, alt, raw_target, i) ==
    CASE outcome.end \in {"external", "id"} -> TextBlock("image", alt, i)
      [] outcome.end = "none" -> TextBlock("paragraph", UploadFailedText \o raw_target, i)
      [] outcome.end = "missing" -> TextBlock("paragraph", NotFoundText \o raw_target, i)

\* which branch of the loop body takes the stripped line
LineForm(stripped) ==
    IF stripped = <<>> THEN "blank"
    ELSE IF startswith(stripped, Fence) THEN "fence"
    ELSE IF startswith(stripped, Dollars) THEN "equation"
    ELSE IF HEADING_RE(stripped) THEN "heading"
    ELSE IF IMAGE_MD_RE(stripped) THEN "image"
    ELSE IF BULLET_RE(stripped) THEN "bullet"
    ELSE IF NUMBERED_RE(stripped) THEN "numbered"
    ELSE "paragraph"

\* the loop is at a line of the given form
At(form) ==
    /\ wPc = "scan"
    /\ wI < Len(wLines)
    /\ LineForm(StrippedAt(wLines, wI)) = form

\* ------------------------------------------------ markdown scan: actions
WInit ==
    /\ wPc = "start"
    /\ wLines = <<>>
    /\ wI = 0
    /\ wBlocks = <<>>
    /\ wLog = <<>>
    /\ heading_count = 0
    /\ image_count = 0

\* lines = markdown_text.splitlines(); blocks = []; i = 0
SplitLines ==
    /\ wPc = "start"
    /\ wLines' \in MarkdownTexts
    /\ wPc' = "scan"
    /\ UNCHANGED <<wI, wBlocks, wLog, heading_count, image_count>>
    /\ WFrame

\* if stripped == "": i += 1
ScanBlank ==
    /\ At("blank")
    /\ wI' = wI + 1
    /\ UNCHANGED <<wPc, wLines, wBlocks, wLog, heading_count, image_count>>
    /\ WFrame

\* the fenced code block: to the closing fence, or to the end of the input
ScanFence ==
    /\ At("fence")
    /\ \E body \in {FenceBody(wLines, wI + 1)} :
       \E code_text \in {Join(SubSeq(wLines, wI + 2, body), <<10>>)} :
          wBlocks' = Append(wBlocks, TextBlock("code", code_text, wI))
    /\ wI' = FenceEnd(wLines, wI)
    /\ UNCHANGED <<wPc, wLines, wLog, heading_count, image_count>>
    /\ WFrame

\* the equation: on one line, or to the closing $$, or to the end of the input
ScanEquation ==
    /\ At("equation")
    /\ \E expr \in {EquationText(wLines, wI)} :
       \E made \in {equation_blocks(expr)} :
          wBlocks' = wBlocks \o SourcedAll(made, wI)
    /\ wI' = EquationEnd(wLines, wI)
    /\ UNCHANGED <<wPc, wLines, wLog, heading_count, image_count>>
    /\ WFrame

ScanHeading ==
    /\ At("heading")
    /\ \E stripped \in {StrippedAt(wLines, wI)} :
       \E level \in {LeadingHashes(stripped)} :
       \E text \in {str_strip(SubSeq(stripped, level + 1, Len(stripped)))} :
          wBlocks' = Append(wBlocks,
                            TextBlock(<<"heading_1", "heading_2", "heading_3">>[level], text, wI))
    /\ heading_count' = heading_count + 1
    /\ wI' = wI + 1
    /\ UNCHANGED <<wPc, wLines, wLog, image_count>>
    /\ WFrame

\* the image line; upload_file_to_notion may raise out of the scan
ScanImage ==
    /\ At("image")
    /\ \E stripped \in {StrippedAt(wLines, wI)} :
       \E alt \in {IF str_strip(ImageAlt(stripped)) = <<>> THEN FigureText
                   ELSE str_strip(ImageAlt(stripped))} :
       \E raw_target \in {str_strip(ImageTarget(stripped))} :
       \E outcome \in (IF IsExternal(raw_target) THEN {ExternalImage} ELSE UploadOutcomes) :
       \E events \in {IF outcome = ExternalImage THEN <<"image_external">>
                      ELSE SubSeq(UploadEvents, 1, outcome.answered)} :
          IF outcome.end = "raised"
          THEN /\ wPc' = "raised"
               /\ wLog' = wLog \o events
               /\ UNCHANGED <<wBlocks, image_count, wI>>
          ELSE /\ \E image_block \in {ImageBlock(outcome, alt, raw_target, wI)} :
                     wBlocks' = Append(wBlocks, image_block)
               /\ wLog' = wLog \o events
               /\ image_count' = image_count + 1
               /\ wI' = wI + 1
               /\ wPc' = wPc
    /\ UNCHANGED <<wLines, heading_count>>
    /\ WFrame

ScanBullet ==
    /\ At("bullet")
    /\ \E stripped \in {StrippedAt(wLines, wI)} :
       \E text \in {str_strip(SubSeq(stripped, 2, Len(stripped)))} :
          wBlocks' = Append(wBlocks, TextBlock("bulleted_list_item", text, wI))
    /\ wI' = wI + 1
    /\ UNCHANGED <<wPc, wLines, wLog, heading_count, image_count>>
    /\ WFrame

ScanNumbered ==
    /\ At("numbered")
    /\ \E stripped \in {StrippedAt(wLines, wI)} :
       \E text \in {str_strip(SubSeq(stripped, LeadingDigits(stripped) + 2, Len(stripped)))} :
          wBlocks' = Append(wBlocks, TextBlock("numbered_list_item", text, wI))
    /\ wI' = wI + 1
    /\ UNCHANGED <<wPc, wLines, wLog, heading_count, image_count>>
    /\ WFrame

\* the fallback: the line and the plain lines after it become a paragraph
ScanParagraph ==
    /\ At("paragraph")
    /\ \E end \in {ParagraphEnd(wLines, wI)} :
       \E para_lines \in {StripEach(SubSeq(wLines, wI + 1, end))} :
       \E paragraph_text \in {Join(para_lines, <<32>>)} :
       \E made \in {paragraph_blocks(paragraph_text)} :
          /\ wBlocks' = wBlocks \o SourcedAll(made, wI)
          /\ wI' = end
    /\ UNCHANGED <<wPc, wLines, wLog, heading_count, image_count>>
    /\ WFrame

\* return blocks, heading_count, image_count
ReturnBlocks ==
    /\ wPc = "scan"
    /\ ~(wI < Len(wLines))
    /\ wPc' = "returned"
    /\ UNCHANGED <<wLines, wI, wBlocks, wLog, heading_count, image_count>>
    /\ WFrame

\* ------------------------------------------------------- stages at rest
XIdle ==
    /\ xPc = "idle"
    /\ manifestExists = FALSE
    /\ papers = <<>>
    /\ force = FALSE
    /\ xFs = {}
    /\ stagedPdfs = {}
    /\ pfiles = <<>>
    /\ xStart = {}
    /\ xWritten = {}
    /\ xIdx = 1
    /\ extraction_rows = <<>>
    /\ ok_text = FALSE
    /\ pagesLoaded = FALSE
    /\ working_pdf = "direct"
    /\ attempts = <<>>
    /\ xRaisedIn = None

MIdle ==
    /\ mPc = "idle"
    /\ papersDirExists = FALSE
    /\ dirFiles = <<>>
    /\ mFs = {}
    /\ mCreated = {}
    /\ stagedCopies = {}
    /\ pdf_files = <<>>
    /\ records = <<>>
    /\ mIdx = 1
    /\ manifest_all = None
    /\ manifest_unique = None

SIdle ==
    /\ sPc = "idle"
    /\ sPapers = <<>>
    /\ sHasMetadata = <<>>
    /\ sIdx = 1
    /\ summaries = <<>>
    /\ bibliography = <<>>
    /\ sWritten = FALSE

PIdle ==
    /\ pPc = "idle"
    /\ tokenSet = FALSE
    /\ lines = <<>>
    /\ lineIdx = 1
    /\ blocks = <<>>
    /\ publish_log = <<>>
    /\ attempt = 1
    /\ upload_id = FALSE
    /\ chunk_idx = 1
    /\ appendCalls = <<>>
    /\ acked = <<>>
    /\ calls = <<>>
    /\ pError = NoError
    /\ pFiles = {}

KIdle ==
    /\ kRow = [type |-> "image", width |-> 0, height |-> 0, page |-> 0]
    /\ kFileSize = 0
    /\ kResult = <<>>

FIdle ==
    /\ fPc = "idle"
    /\ fImages = <<>>
    /\ fPdfPages = 0
    /\ pages_count = 0
    /\ rows = <<>>
    /\ file_by_index = {}
    /\ fIdx = 1
    /\ kept = <<>>
    /\ rejected = <<>>
    /\ seen_hashes = {}
    /\ fallback_used = FALSE

EIdle ==
    /\ ePc = "idle"
    /\ ePages = <<>>
    /\ page_idx = 1
    /\ eLine = 1
    /\ candidates = <<>>
    /\ seen = {}
    /\ eReturned = <<>>

VIdle ==
    /\ vPc = "idle"
    /\ vTotal = 0
    /\ vSummaries = <<>>
    /\ validation = <<>>
    /\ vWritten = FALSE

CIdle ==
    /\ cSummary = <<>>
    /\ cClock = 0
    /\ cRuns = <<>>

GIdle ==
    /\ gPc = "idle"
    /\ gPool = <<>>
    /\ gPass = "objective"
    /\ gLimit = 1
    /\ gChosen = <<>>
    /\ gParagraph = <<>>

TIdle ==
    /\ tPc = "idle"
    /\ tKind = "paragraph"
    /\ tText = <<>>
    /\ tOut = <<>>

WIdle ==
    /\ wPc = "idle"
    /\ wLines = <<>>
    /\ wI = 0
    /\ wBlocks = <<>>
    /\ wLog = <<>>
    /\ heading_count = 0
    /\ image_count = 0

\* ---------------------------------------------------------- specifications
NextManifest ==
    \/ ManifestMain
    \/ BuildManifestBegin
    \/ ProbeRecord
    \/ BuildManifestFinish

InitManifest == MInit /\ XIdle /\ SIdle /\ PIdle /\ KIdle /\ FIdle /\ EIdle /\ VIdle /\ CIdle /\ GIdle /\ TIdle /\ WIdle

SpecManifest == InitManifest /\ [][NextManifest]_vars

NextExtract ==
    \/ ExtractMain
    \/ PaperBegin
    \/ ExtractText
    \/ ExtractFigures
    \/ WriteMetadata
    \/ WriteEquations
    \/ WriteFiguresIndex
    \/ WritePagesMeta
    \/ ExtractFinish
    \/ ExtractInterrupted
    \/ ExtractRerun

InitExtract == XInit /\ MIdle /\ SIdle /\ PIdle /\ KIdle /\ FIdle /\ EIdle /\ VIdle /\ CIdle /\ GIdle /\ TIdle /\ WIdle

SpecExtract == InitExtract /\ [][NextExtract]_vars

NextSummarize ==
    \/ SummarizePaper
    \/ SummarizeFinish

InitSummarize == SInit /\ MIdle /\ XIdle /\ PIdle /\ KIdle /\ FIdle /\ EIdle /\ VIdle /\ CIdle /\ GIdle /\ TIdle /\ WIdle

SpecSummarize == InitSummarize /\ [][NextSummarize]_vars

NextPublish ==
    \/ PublishMain
    \/ ParseLine
    \/ UploadCreateAttempt
    \/ UploadSendAttempt
    \/ UploadCompleteAttempt
    \/ ParseReturn
    \/ CreatePageAttempt
    \/ AppendAttempt
    \/ AppendReturn
    \/ WriteArtifacts

InitPublish == PInit /\ MIdle /\ XIdle /\ SIdle /\ KIdle /\ FIdle /\ EIdle /\ VIdle /\ CIdle /\ GIdle /\ TIdle /\ WIdle

SpecPublish == InitPublish /\ [][NextPublish]_vars

NextAppend ==
    \/ AppendAttempt
    \/ AppendReturn
    \/ WriteArtifacts

InitAppend == PAppendInit /\ MIdle /\ XIdle /\ SIdle /\ KIdle /\ FIdle /\ EIdle /\ VIdle /\ CIdle /\ GIdle /\ TIdle /\ WIdle

SpecAppend == InitAppend /\ [][NextAppend]_vars

NextKeepImage ==
    \/ KeepImage

InitKeepImage == KInit /\ MIdle /\ XIdle /\ SIdle /\ PIdle /\ FIdle /\ EIdle /\ VIdle /\ CIdle /\ GIdle /\ TIdle /\ WIdle

SpecKeepImage == InitKeepImage /\ [][NextKeepImage]_vars

NextFigures ==
    \/ ListImages
    \/ FilterRow
    \/ FallbackAndReturn

InitFigures == FInit /\ MIdle /\ XIdle /\ SIdle /\ PIdle /\ KIdle /\ EIdle /\ VIdle /\ CIdle /\ GIdle /\ TIdle /\ WIdle

SpecFigures == InitFigures /\ [][NextFigures]_vars

NextEquations ==
    \/ ScanLine
    \/ RankAndReturn

InitEquations == EInit /\ MIdle /\ XIdle /\ SIdle /\ PIdle /\ KIdle /\ FIdle /\ VIdle /\ CIdle /\ GIdle /\ TIdle /\ WIdle

SpecEquations == InitEquations /\ [][NextEquations]_vars

NextEvidence ==
    \/ SummarizeOne
    \/ WriteCorpus

InitEvidence == VInit /\ MIdle /\ XIdle /\ SIdle /\ PIdle /\ KIdle /\ FIdle /\ EIdle /\ CIdle /\ GIdle /\ TIdle /\ WIdle

SpecEvidence == InitEvidence /\ [][NextEvidence]_vars

NextCompose ==
    \/ ComposeMarkdown
    \/ ClockTick

InitCompose == CInit /\ MIdle /\ XIdle /\ SIdle /\ PIdle /\ KIdle /\ FIdle /\ EIdle /\ VIdle /\ GIdle /\ TIdle /\ WIdle

SpecCompose == InitCompose /\ [][NextCompose]_vars

NextPick ==
    \/ PickSentences

InitPick == GInit /\ MIdle /\ XIdle /\ SIdle /\ PIdle /\ KIdle /\ FIdle /\ EIdle /\ VIdle /\ CIdle /\ TIdle /\ WIdle

SpecPick == InitPick /\ [][NextPick]_vars

NextSplit ==
    \/ SplitParagraph
    \/ CutEquation

InitSplit == TInit /\ MIdle /\ XIdle /\ SIdle /\ PIdle /\ KIdle /\ FIdle /\ EIdle /\ VIdle /\ CIdle /\ GIdle /\ WIdle

SpecSplit == InitSplit /\ [][NextSplit]_vars

NextScan ==
    \/ SplitLines
    \/ ScanBlank
    \/ ScanFence
    \/ ScanEquation
    \/ ScanHeading
    \/ ScanImage
    \/ ScanBullet
    \/ ScanNumbered
    \/ ScanParagraph
    \/ ReturnBlocks

InitScan == WInit /\ MIdle /\ XIdle /\ SIdle /\ PIdle /\ KIdle /\ FIdle /\ EIdle /\ VIdle /\ CIdle /\ GIdle /\ TIdle

SpecScan == InitScan /\ [][NextScan]_vars

\* the interpreter runs the statement the function is at: whichever branch
\* of the loop body applies to the line, or the return after the loop
FairScan ==
    /\ SpecScan
    /\ WF_vars(SplitLines)
    /\ WF_vars(ScanBlank)
    /\ WF_vars(ScanFence)
    /\ WF_vars(ScanEquation)
    /\ WF_vars(ScanHeading)
    /\ WF_vars(ScanImage)
    /\ WF_vars(ScanBullet)
    /\ WF_vars(ScanNumbered)
    /\ WF_vars(ScanParagraph)
    /\ WF_vars(ReturnBlocks)

\* ================================================ claims, manifest stage
SeqToSet(s) == {s[i] : i \in DOMAIN s}

FilesWith(h) == {n \in DOMAIN dirFiles : dirFiles[n] = h}

DistinctHashes == {dirFiles[n] : n \in DOMAIN dirFiles}

NameOf(c) == <<c>> \o PdfSuffix

\* C1: once build_manifest has finished, every distinct content hash of the
\* directory has exactly one unique record, whose alias_file_names are
\* exactly the files with that content (each once) and whose duplicate_count
\* is the number of aliases minus one; total_files, unique_files and
\* duplicate_groups count the files, the distinct hashes and the hashes
\* shared by more than one file.
C1_OneUniquePaperPerHash ==
    mPc = "done" =>
        LET unique_papers == manifest_unique.papers
        IN  /\ \A h \in DistinctHashes :
                  \E i \in DOMAIN unique_papers :
                      /\ unique_papers[i].sha256 = h
                      /\ \A j \in DOMAIN unique_papers : unique_papers[j].sha256 = h => j = i
                      /\ SeqToSet(unique_papers[i].alias_file_names) = FilesWith(h)
                      /\ Len(unique_papers[i].alias_file_names) = Cardinality(FilesWith(h))
                      /\ unique_papers[i].duplicate_count = Len(unique_papers[i].alias_file_names) - 1
            /\ \A i \in DOMAIN unique_papers : unique_papers[i].sha256 \in DistinctHashes
            /\ manifest_all.total_files = Cardinality(DOMAIN dirFiles)
            /\ manifest_all.unique_files = Cardinality(DistinctHashes)
            /\ manifest_all.duplicate_groups =
                  Cardinality({h \in DistinctHashes : Cardinality(FilesWith(h)) > 1})

\* two identical files and one distinct file: 3 / 2 / 1
C1_Witness ==
    /\ mPc = "done"
    /\ DOMAIN dirFiles = {NameOf(97), NameOf(98), NameOf(67)}
    /\ dirFiles[NameOf(97)] = dirFiles[NameOf(98)]
    /\ dirFiles[NameOf(67)] # dirFiles[NameOf(97)]
    /\ manifest_all.total_files = 3
    /\ manifest_all.unique_files = 2
    /\ manifest_all.duplicate_groups = 1
    /\ \E i \in DOMAIN manifest_unique.papers :
          /\ manifest_unique.papers[i].alias_file_names = <<NameOf(97), NameOf(98)>>
          /\ manifest_unique.papers[i].duplicate_count = 1

\* the paper_id every content hash gets from a run of build_manifest that
\* enumerates the (unchanged) directory in the given order
RerunPaperIds(order) ==
    LET files == SortedGlob(order)
        recs  == [i \in DOMAIN files |->
                    [file_name |-> files[i], sha256 |-> dirFiles[files[i]],
                     pages |-> NoInt, extractability_status |-> "direct_ok"]]
        uniq  == UniqueRecords(recs)
    IN  {<<uniq[i].sha256, uniq[i].paper_id>> : i \in DOMAIN uniq}

\* C2: in a finished manifest the sequence numbers of the unique-paper list
\* are 1..N in list order, no two papers share a paper_id, and a run of
\* build_manifest on the same files gives every paper the same paper_id,
\* whatever order the directory is enumerated in.
C2_PaperIdsStable ==
    mPc = "done" =>
        LET unique_papers == manifest_unique.papers
        IN  /\ \A i \in DOMAIN unique_papers : unique_papers[i].paper_id[1] = i
            /\ \A i, j \in DOMAIN unique_papers :
                  unique_papers[i].paper_id = unique_papers[j].paper_id => i = j
            /\ \A order \in Perms(DOMAIN dirFiles) :
                  RerunPaperIds(order) =
                      {<<unique_papers[i].sha256, unique_papers[i].paper_id>> : i \in DOMAIN unique_papers}

\* the case-insensitively smallest name of an alias list, lower-cased
CaseInsensitiveMin(aliases) ==
    LET lowered == {Lower(aliases[i]) : i \in DOMAIN aliases}
    IN  CHOOSE n \in lowered : \A m \in lowered : LexLeq(n, m)

\* C3: in a finished manifest the canonical file of every unique paper is the
\* case-insensitively smallest of its aliases, the unique papers are ordered
\* by that case-insensitive minimum, and so the list is sorted by lower-cased
\* canonical_file_name.
C3_OrderedByCaseInsensitiveMin ==
    mPc = "done" =>
        LET unique_papers == manifest_unique.papers
        IN  /\ \A i \in DOMAIN unique_papers :
                  Lower(unique_papers[i].canonical_file_name) =
                      CaseInsensitiveMin(unique_papers[i].alias_file_names)
            /\ \A i, j \in DOMAIN unique_papers :
                  i < j => LexLeq(CaseInsensitiveMin(unique_papers[i].alias_file_names),
                                  CaseInsensitiveMin(unique_papers[j].alias_file_names))
            /\ \A i, j \in DOMAIN unique_papers :
                  i < j => LexLeq(Lower(unique_papers[i].canonical_file_name),
                                  Lower(unique_papers[j].canonical_file_name))

\* C8 (manifest stage): when the stage aborts because the papers directory is
\* missing, it has created nothing in the file system.
C8_AbortBeforeAnyIO ==
    mPc = "aborted" => mCreated = {}

\* C9: once build_manifest has ended, by returning or by an exception, the
\* temp_probe staging directory no longer exists.
C9_StagingRemovedOnEveryPath ==
    mPc \in {"done", "crashed"} => "temp_probe" \notin mFs

\* C10: a timeout or failure of an external tool never ends the manifest
\* stage early: when the stage has stopped, every file of the directory has
\* its record (with a null page count or a failed status where a tool
\* failed) and both manifests are written.
C10_ToolFailureIsPerItem ==
    mPc \in {"done", "crashed"} =>
        /\ Len(records) = Len(pdf_files)
        /\ "manifest_all.json" \in mFs
        /\ "manifest_unique.json" \in mFs
\* ============================================== claims, extraction stage
XLoopBody == {"text", "figures", "write_metadata", "write_equations",
              "write_figures_index", "write_pages_meta"}

\* C5: in a run without --force, a paper whose metadata.json existed when the
\* run started has none of its paths created, written or removed by the run,
\* its metadata.json is still there, and once the loop has passed it its row
\* has status "skipped"; so outputs that existed are overwritten only by a
\* run with --force.
C5_SkipWritesNothing ==
    \A p \in DOMAIN papers :
        (p \in xStart /\ ~force) =>
            /\ p \notin xWritten
            /\ pfiles[p].metadata
            /\ (xPc \in XLoopBody \cup {"paper", "done", "crashed"} /\ p < xIdx) =>
                   extraction_rows[p].status = "skipped"

\* a re-run without --force that skipped an already processed paper and
\* processed another one
C5_Witness ==
    /\ xPc = "done"
    /\ ~force
    /\ \E p \in xStart, q \in DOMAIN papers :
          /\ q \notin xStart
          /\ extraction_rows[p].status = "skipped"
          /\ p \notin xWritten
          /\ extraction_rows[q].status = "processed"
          /\ q \in xWritten

\* C6: in every state a paper directory holds all four of metadata.json,
\* equation_candidates.json, figures_index.json and pages_meta.json or none
\* of them.
C6_NeverPartiallyWritten ==
    \A p \in DOMAIN papers :
        LET f == pfiles[p]
        IN  \/ f.metadata /\ f.equation_candidates /\ f.figures_index /\ f.pages_meta
            \/ ~f.metadata /\ ~f.equation_candidates /\ ~f.figures_index /\ ~f.pages_meta

IsPrefix(a, b) == Len(a) <= Len(b) /\ \A i \in DOMAIN a : a[i] = b[i]

\* C7: pdftotext is called on the staged copy first for a requires_staging
\* paper and on the direct path first otherwise, then on the other path; when
\* both calls fail the paper goes on with text_extracted = false and no
\* pages; and no failure inside the text extraction of one paper ends the run:
\* a finished run has a row for every paper.
C7_TextFallbackNeverAborts ==
    /\ xPc \in XLoopBody \cup {"crashed"} =>
           IsPrefix([k \in DOMAIN attempts |-> attempts[k].path],
                    Candidates(PreferStaging(papers[xIdx])))
    /\ (xPc = "figures" /\ \A k \in DOMAIN attempts : attempts[k].result = "fail") =>
           /\ Len(attempts) = 2
           /\ ~ok_text
           /\ ~pagesLoaded
    /\ xPc = "crashed" => xRaisedIn # "extract_full_text"
    /\ xPc = "done" => Len(extraction_rows) = Len(papers)

\* ============================================== claims, summarizer stage
\* C4: every summary's citation_number is the 1-based position of its paper
\* in the manifest's unique-paper list, also after papers without metadata
\* were skipped; citation numbers increase strictly along the summary list;
\* and the bibliography has one entry per summary, in the same order, with
\* id = citation_number and the same paper_id.
C4_CitationIsManifestPosition ==
    /\ \A i \in DOMAIN summaries :
          /\ summaries[i].citation_number \in DOMAIN sPapers
          /\ sPapers[summaries[i].citation_number].paper_id = summaries[i].paper_id
    /\ \A i, j \in DOMAIN summaries :
          i < j => summaries[i].citation_number < summaries[j].citation_number
    /\ Len(bibliography) = Len(summaries)
    /\ \A i \in DOMAIN summaries :
          /\ bibliography[i].id = summaries[i].citation_number
          /\ bibliography[i].paper_id = summaries[i].paper_id

\* a written corpus in which a paper without metadata was skipped before a
\* summarized one
C4_Witness ==
    /\ sPc = "done"
    /\ sWritten
    /\ Len(summaries) >= 2
    /\ \E i \in DOMAIN summaries : summaries[i].citation_number > i
\* ================================================= claims, publish stage
AppendSizes == [i \in DOMAIN appendCalls |-> Len(appendCalls[i])]

\* C11: the append calls begun so far carry, in order, the first blocks of
\* the list, at most 100 each; when append_blocks has returned there are
\* ceil(n/100) of them, all but the last of exactly 100 blocks, and together
\* they are the block list (250 blocks: 100, 100, 50; no block: no call).
C11_ChunksOfHundred ==
    LET n == Len(blocks)
        k == Len(appendCalls)
        sent == Flatten(appendCalls)
    IN  /\ \A i \in 1..k : Len(appendCalls[i]) \in 1..100
        /\ Len(sent) <= n
        /\ sent = SubSeq(blocks, 1, Len(sent))
        /\ pPc \in {"write", "done"} =>
              /\ k * 100 >= n
              /\ (k - 1) * 100 < n
              /\ \A i \in 1..(k - 1) : Len(appendCalls[i]) = 100
              /\ sent = blocks
              /\ (n = 250 => AppendSizes = <<100, 100, 50>>)
              /\ (n = 0 => appendCalls = <<>>)

\* 250 blocks were appended in three requests of 100, 100 and 50
C11_Witness ==
    /\ pPc = "done"
    /\ Len(blocks) = 250
    /\ AppendSizes = <<100, 100, 50>>

\* C12: no call sends more than 6 requests, and a run that ends inside
\* append_blocks ends with an error naming the chunk whose call failed, with
\* no call begun for a later chunk.
C12_BoundedRetryNamesChunk ==
    /\ attempt <= max_attempts
    /\ (pPc = "aborted" /\ calls # <<>> /\ calls[Len(calls)].call = "append_chunk") =>
          /\ pError.chunk = <<chunk_idx>>
          /\ Len(appendCalls) = chunk_idx

\* C13: the chunks answered with success are 1..k in order, and a call for
\* chunk k+1 has begun only when chunks 1..k were all answered with success;
\* one call at most is unanswered, the one in progress.
C13_AckedIsPrefix ==
    /\ acked = [i \in 1..Len(acked) |-> i]
    /\ Len(appendCalls) \in {Len(acked), Len(acked) + 1}
    /\ Len(appendCalls) = Len(acked) + 1 => pPc \in {"append", "aborted"}
    /\ pPc = "append" => chunk_idx = Len(acked) + 1

\* the third chunk is being retried after the first two were acknowledged
C13_Witness ==
    /\ pPc = "append"
    /\ acked = <<1, 2>>
    /\ Len(appendCalls) = 3
    /\ attempt > 1

UploadCalls == {"file_upload_create", "file_upload_send", "file_upload_complete"}

Succeeded(c) == c.outcome # NoInt /\ c.outcome[1] < 300

\* C14: a run never ends inside an upload; the send call follows a
\* successful create call of the same image and the complete call a
\* successful send call; and an image whose create or send call did not
\* succeed has the fallback paragraph at its position.
C14_UploadFailureNeverAborts ==
    /\ (pPc = "aborted" /\ calls # <<>>) => calls[Len(calls)].call \notin UploadCalls
    /\ \A i \in DOMAIN calls :
          /\ calls[i].call = "file_upload_send" =>
                /\ i > 1
                /\ calls[i - 1].call = "file_upload_create"
                /\ calls[i - 1].ref = calls[i].ref
                /\ Succeeded(calls[i - 1])
          /\ calls[i].call = "file_upload_complete" =>
                /\ i > 1
                /\ calls[i - 1].call = "file_upload_send"
                /\ calls[i - 1].ref = calls[i].ref
                /\ Succeeded(calls[i - 1])
          /\ (/\ calls[i].call \in {"file_upload_create", "file_upload_send"}
              /\ ~Succeeded(calls[i])) =>
                /\ Len(blocks) >= calls[i].ref
                /\ blocks[calls[i].ref] = Block("paragraph", calls[i].ref, "upload_failed")

\* the calls the publish log has an event for, with the logged status
LoggedCalls ==
    LET ev == SelectSeq(publish_log, LAMBDA e : e.event # "image_external")
    IN  [i \in DOMAIN ev |->
            [call |-> ev[i].event,
             ref |-> IF ev[i].event = "append_chunk" THEN ev[i].chunk_index
                     ELSE ev[i].file,
             outcome |-> <<ev[i].status_code>>]]

\* C15: the publish log has one event, with the outcome, for every external
\* call that has ended, and a run that has ended, also one that aborted on a
\* failing page creation or a failing chunk, has written the log file.
C15_LogRecordsEveryCallAndPersists ==
    /\ LoggedCalls = calls
    /\ (pPc = "done" \/ (pPc = "aborted" /\ calls # <<>>)) =>
          "notion_publish_log.json" \in pFiles
\* ================================================== claims, figure stage
MaskTypes == {"mask", "smask", "stencil"}

\* the first rejection rule, in the stated order, that the image meets
FirstRuleMet(row, file_size) ==
    LET w == row.width
        h == row.height
        big == IF w >= h THEN w ELSE h
        small == IF w >= h THEN h ELSE w
    IN  CASE row.type \in MaskTypes -> "mask_or_stencil"
          [] row.type \notin MaskTypes /\ (w < 160 \/ h < 160) -> "too_small_dimensions"
          [] row.type \notin MaskTypes /\ w >= 160 /\ h >= 160 /\ w * h < 60000 ->
                "too_small_area"
          [] row.type \notin MaskTypes /\ w >= 160 /\ h >= 160 /\ w * h >= 60000
                /\ big > 6 * small -> "extreme_aspect_ratio"
          [] row.type \notin MaskTypes /\ w >= 160 /\ h >= 160 /\ w * h >= 60000
                /\ big <= 6 * small /\ file_size < 8192 -> "too_small_file"
          [] row.type \notin MaskTypes /\ w >= 160 /\ h >= 160 /\ w * h >= 60000
                /\ big <= 6 * small /\ file_size >= 8192
                /\ row.page <= 2 /\ w <= 420 /\ h <= 420 /\ file_size < 50000 ->
                "likely_decorative_frontmatter"
          [] OTHER -> "kept"

\* C16: should_keep_image returns the reason of the first rule met, in the
\* order mask/stencil, small dimension, small area, aspect ratio, small
\* file, front-matter decoration, and keeps the image exactly when no rule
\* is met; a 100x100 image of 12 KB is rejected as too_small_dimensions and
\* a 500x500 image of 60 KB on page 5 is kept.
C16_RulesInFixedOrder ==
    kResult # <<>> =>
        /\ kResult[1].reason = FirstRuleMet(kRow, kFileSize)
        /\ kResult[1].keep = (kResult[1].reason = "kept")
        /\ (/\ kRow.type = "image" /\ kRow.width = 100 /\ kRow.height = 100
            /\ kFileSize = 12288) =>
               kResult[1] = [keep |-> FALSE, reason |-> "too_small_dimensions"]
        /\ (/\ kRow.type = "image" /\ kRow.width = 500 /\ kRow.height = 500
            /\ kRow.page = 5 /\ kFileSize = 61440) =>
               kResult[1] = [keep |-> TRUE, reason |-> "kept"]

\* the 100x100 image of 12 KB has been rejected for its dimensions
C16_Witness ==
    /\ kRow.type = "image"
    /\ kRow.width = 100
    /\ kRow.height = 100
    /\ kFileSize = 12288
    /\ kResult = <<[keep |-> FALSE, reason |-> "too_small_dimensions"]>>

Renders == SelectSeq(kept, LAMBDA f : f.source = "page_render")

\* C17: when extract_figures has returned for a PDF with at least one page,
\* at least one figure is kept, at most 12 of the kept figures are page
\* renders, and when no embedded image was kept the renders are the first
\* min(12, page count) pages.
C17_NeverFigureless ==
    fPc = "returned" =>
        /\ Len(kept) >= 1
        /\ Len(Renders) <= 12
        /\ (\A i \in DOMAIN kept : kept[i].source # "embedded_image") =>
              /\ Len(kept) = (IF fPdfPages <= 12 THEN fPdfPages ELSE 12)
              /\ \A i \in DOMAIN kept : kept[i].page = i
\* ================================================ claims, equation stage
\* the target line is among the lines of the pages, as cleaned
TargetInPages ==
    \E p \in DOMAIN ePages : \E l \in DOMAIN ePages[p] :
        clean_whitespace(ePages[p][l]) = TargetLine

TargetReturned ==
    \E i \in DOMAIN eReturned :
        eReturned[i].equation = TargetLine /\ eReturned[i].score >= 6

\* the candidates that rank before candidate j: a higher score, or the same
\* score on an earlier page, or the same score and page and found earlier
RankedBefore(j) ==
    {i \in DOMAIN candidates :
        \/ candidates[i].score > candidates[j].score
        \/ /\ candidates[i].score = candidates[j].score
           /\ \/ candidates[i].page < candidates[j].page
              \/ candidates[i].page = candidates[j].page /\ i < j}

\* C18 as stated: every score is in 0..8, and whenever the pages contain the
\* line "∂ω/∂t + u·∇ω = ν∇²ω (4)" the returned list has it with a score of
\* at least 6.
C18_TargetAlwaysReturned ==
    /\ \A i \in DOMAIN candidates : candidates[i].score \in 0..8
    /\ (ePc = "returned" /\ TargetInPages) => TargetReturned

\* C18 amended: every score is in 0..8; the line scores 6; once scanned it is
\* a candidate unless an earlier line has the same normalized form; and the
\* returned list has it exactly when it is a candidate and fewer than 12
\* candidates rank before it by (score descending, page ascending, order
\* found).
C18_TargetReturnedWithinLimit ==
    /\ \A i \in DOMAIN candidates : candidates[i].score \in 0..8
    /\ \A i \in DOMAIN candidates :
          candidates[i].equation = TargetLine => candidates[i].score = 6
    /\ (ePc = "returned" /\ TargetInPages) =>
          /\ Normalized(TargetLine) \in seen
          /\ \E i \in DOMAIN candidates :
                Normalized(candidates[i].equation) = Normalized(TargetLine)
          /\ TargetReturned <=>
                \E j \in DOMAIN candidates :
                    /\ candidates[j].equation = TargetLine
                    /\ Cardinality(RankedBefore(j)) < 12

\* eleven lines score higher and the line is returned in twelfth place
C18_Witness ==
    /\ ePc = "returned"
    /\ Len(eReturned) = 12
    /\ eReturned[12].equation = TargetLine
    /\ eReturned[12].score = 6
    /\ eReturned[11].score = 8
\* ================================================ claims, evidence stage
\* the four passes and the equation file gave nothing for this summary
NothingExtracted(summary) ==
    /\ summary.objective = "fallback"
    /\ summary.methods = "fallback"
    /\ summary.findings = "fallback"
    /\ summary.limitations = "fallback"
    /\ summary.key_equations[1].score = 0

\* C19: the evidence anchors of every summary have pairwise different
\* (tag, page, lower-cased quote), are at least 1 and at most 14, and for a
\* paper whose passes and equation file gave nothing they are exactly one
\* anchor tagged fallback that quotes the abstract excerpt or the
\* no-evidence notice.
C19_AnchorsUniqueCappedOrFallback ==
    \A s \in DOMAIN vSummaries :
        LET anchors == vSummaries[s].evidence_anchors
        IN  /\ \A i, j \in DOMAIN anchors :
                  AnchorKey(anchors[i]) = AnchorKey(anchors[j]) => i = j
            /\ Len(anchors) >= 1
            /\ Len(anchors) <= 14
            /\ NothingExtracted(vSummaries[s]) =>
                  /\ Len(anchors) = 1
                  /\ anchors[1].tag = "fallback"
                  /\ anchors[1].quote \in
                        {SubSeq(vSummaries[s].abstract_excerpt, 1, 280), NoEvidenceNotice}

\* C20: every summary has a non-empty citation, at least one evidence anchor
\* and at least one equation entry, and the validation block written with
\* the corpus has its three booleans true.
C20_ValidationAlwaysTrue ==
    /\ \A s \in DOMAIN vSummaries :
          /\ vSummaries[s].citation # <<>>
          /\ Len(vSummaries[s].evidence_anchors) >= 1
          /\ Len(vSummaries[s].key_equations) >= 1
    /\ vWritten =>
          /\ validation # <<>>
          /\ validation[1].all_have_citations
          /\ validation[1].all_have_evidence
          /\ validation[1].all_have_equation_or_fallback

\* a written corpus with a paper that gave nothing and a paper that gave
\* sentences and equations
C20_Witness ==
    /\ vPc = "done"
    /\ vWritten
    /\ \E a, b \in DOMAIN vSummaries :
          /\ NothingExtracted(vSummaries[a])
          /\ vSummaries[b].methods = "sentences"
          /\ vSummaries[b].key_equations[1].score > 0

\* ============================== claims, extraction stage: cleanup, reruns
\* C23: once extract_assets has ended, by returning or by an exception, the
\* staging directory and its staged PDF copies no longer exist, and no
\* paper has a _raw_figures directory.
C23_StagingAndRawRemoved ==
    xPc \in {"done", "crashed"} =>
        /\ "staging" \notin xFs
        /\ stagedPdfs = {}
        /\ \A p \in DOMAIN pfiles : ~pfiles[p].raw

\* the loop of extract_assets decides about paper xIdx in this step
XDecides == xPc = "paper" /\ xIdx <= Len(papers) /\ xPc' # "killed"

\* C29: the skip decision reads only the existence of metadata.json and the
\* force flag: a paper that has its metadata.json is reported as skipped by
\* a run without force, which leaves its output files alone and starts no
\* extraction of it; any other paper is extracted, and under force its
\* previous outputs are deleted before the extraction starts; a
\* metadata.json, once written, is only ever removed by a run with force.
C29_SkipDependsOnMetadataOnly ==
    [][/\ XDecides =>
             IF pfiles[xIdx].metadata /\ ~force
             THEN /\ extraction_rows' = Append(extraction_rows,
                        [paper_id |-> papers[xIdx].paper_id, status |-> "skipped"])
                  /\ xPc' = "paper"
                  /\ xIdx' = xIdx + 1
                  /\ attempts' = <<>>
                  /\ stagedPdfs' = stagedPdfs
                  /\ pfiles' = [pfiles EXCEPT ![xIdx].dir = TRUE,
                                              ![xIdx].figures = TRUE]
             ELSE /\ xPc' = "text"
                  /\ xIdx' = xIdx
                  /\ extraction_rows' = extraction_rows
                  /\ force => pfiles'[xIdx] =
                                 [NoFiles EXCEPT !.dir = TRUE, !.figures = TRUE]
       /\ xPc' = "text" => XDecides
       /\ \A p \in DOMAIN pfiles :
             (pfiles[p].metadata /\ ~pfiles'[p].metadata) => (force /\ XDecides)]_vars

\* a run without force skips a paper whose earlier processing extracted no
\* text
C29_Witness ==
    /\ ~force
    /\ \E i \in DOMAIN extraction_rows :
          /\ extraction_rows[i].status = "skipped"
          /\ \E p \in DOMAIN papers :
                /\ papers[p].paper_id = extraction_rows[i].paper_id
                /\ pfiles[p].metadata
                /\ ~pfiles[p].text

\* ================================== claims, figure stage: deduplication
\* the rows the loop of extract_figures has been through, in list order
RowsDone == [i \in 1..(fIdx - 1) |-> i]

\* row i has its extracted file and passes should_keep_image
PassesFilter(i) ==
    i \in file_by_index /\ should_keep_image(rows[i], fImages[i].size).keep

\* row i passes the filter and no earlier passing row has its content hash
FirstOfItsHash(i) ==
    /\ PassesFilter(i)
    /\ \A j \in 1..(i - 1) : PassesFilter(j) => fImages[j].hash # fImages[i].hash

Embedded == SelectSeq(kept, LAMBDA f : f.source = "embedded_image")

\* C27: the kept embedded figures are, in list-row order, exactly the rows
\* that pass the filter and are the first of their content hash, numbered
\* 1, 2, ... without gaps; every other row has exactly one entry in the
\* rejected list, in row order, and its reason is duplicate_hash exactly
\* when the row passed the filter; no row is in both lists.
C27_FirstOfEachHashKeptInOrder ==
    fPc \in {"row", "returned", "crashed"} =>
        LET firsts == SelectSeq(RowsDone, FirstOfItsHash)
            others == SelectSeq(RowsDone, LAMBDA i : ~FirstOfItsHash(i))
        IN  /\ Len(Embedded) = Len(firsts)
            /\ \A k \in DOMAIN Embedded :
                  /\ Embedded[k].figure_id = k
                  /\ Embedded[k].page = rows[firsts[k]].page
            /\ Len(rejected) = Len(others)
            /\ \A k \in DOMAIN rejected :
                  /\ rejected[k].num = others[k]
                  /\ rejected[k].reason = "duplicate_hash" <=> PassesFilter(others[k])
            /\ Len(Embedded) + Len(rejected) = fIdx - 1

\* two images with the same content pass the filter: the first is kept as
\* figure 1, the second is rejected as a duplicate
C27_Witness ==
    /\ fPc = "returned"
    /\ Len(kept) = 1
    /\ kept[1].source = "embedded_image"
    /\ kept[1].figure_id = 1
    /\ rejected = <<[num |-> 2, reason |-> "duplicate_hash"]>>

\* ====================================== claims, equation stage: ranking
\* a ranks strictly before b by (score descending, page ascending)
Outranks(a, b) ==
    a.score > b.score \/ (a.score = b.score /\ a.page < b.page)

CallPhase(c) ==
    IF c.call \in UploadCalls THEN 1 ELSE IF c.call = "create_page" THEN 2 ELSE 3

PageCalls == SelectSeq(calls, LAMBDA c : c.call = "create_page")

\* C30: without a token no external call is made; the calls that have
\* ended are the uploads, then at most one page creation, then the appends;
\* once page creation begins every line has been parsed and every local
\* image has had its upload attempted; an append request is only sent after
\* a page creation that succeeded; and after a page creation that did not
\* succeed no append request is sent and no artifact file is written.
C30_CallsInFixedOrder ==
    /\ ~tokenSet => (calls = <<>> /\ appendCalls = <<>> /\ pFiles = {})
    /\ \A i, j \in DOMAIN calls : i < j => CallPhase(calls[i]) <= CallPhase(calls[j])
    /\ Len(PageCalls) <= 1
    /\ (pPc = "create_page" \/ PageCalls # <<>>) =>
          /\ lineIdx = Len(lines) + 1
          /\ \A l \in DOMAIN lines :
                lines[l] = "image_local" =>
                    \E i \in DOMAIN calls :
                        calls[i].call = "file_upload_create" /\ calls[i].ref = l
    /\ appendCalls # <<>> => (PageCalls # <<>> /\ Succeeded(PageCalls[1]))
    /\ (PageCalls # <<>> /\ ~Succeeded(PageCalls[1])) =>
          /\ pPc = "aborted"
          /\ appendCalls = <<>>
          /\ pFiles = {}
          /\ \A i \in DOMAIN calls : calls[i].call # "append_chunk"

\* an image was uploaded during parsing, then page creation was answered
\* with a client error and the run stopped there
C30_Witness ==
    /\ pPc = "aborted"
    /\ pError.kind = "create_page_failed"
    /\ Len(calls) >= 2
    /\ calls[1].call = "file_upload_create"
    /\ calls[Len(calls)] = [call |-> "create_page", ref |-> 0, outcome |-> <<400>>]
    /\ appendCalls = <<>>

\* ================================================= claims, report stage
TocPaperLines(md) == SelectSeq(md, LAMBDA l : l.kind = "toc_paper")

PaperHeadingLines(md) == SelectSeq(md, LAMBDA l : l.kind = "h3_paper")

IsSuffix(a, b) == Len(a) <= Len(b) /\ SubSeq(b, Len(b) - Len(a) + 1, Len(b)) = a

\* slug is text in lower case with every run of characters outside a-z and
\* 0-9 turned into one hyphen and no hyphen at either end
IsSlugOf(slug, text) ==
    /\ \A i \in DOMAIN slug : IsSlugChar(slug[i]) \/ slug[i] = 45
    /\ slug # <<>> => (slug[1] # 45 /\ slug[Len(slug)] # 45)
    /\ \A i \in 1..(Len(slug) - 1) : ~(slug[i] = 45 /\ slug[i + 1] = 45)
    /\ SelectSeq(slug, IsSlugChar) = SelectSeq(str_lower(text), IsSlugChar)

\* C21: in the markdown of every run there is one table-of-contents entry
\* and one section heading per paper of the summary, in the order of the
\* papers; the heading ends with the paper's title; and the anchor of the
\* k-th entry is the slug of the text of the k-th section heading.
C21_TocAnchorIsSlugOfSectionHeading ==
    \A r \in DOMAIN cRuns :
        LET toc == TocPaperLines(cRuns[r])
            sections == PaperHeadingLines(cRuns[r])
            dicts == Dicts(cSummary)
        IN  /\ Len(toc) = Len(dicts)
            /\ Len(sections) = Len(dicts)
            /\ \A k \in DOMAIN dicts :
                  /\ IsSuffix(TitleOf(dicts[k]), sections[k].text)
                  /\ toc[k].text = sections[k].text
                  /\ toc[k].anchor = anchor_slug(sections[k].text)
                  /\ IsSlugOf(toc[k].anchor, sections[k].text)

\* a paper without a citation number and with the title "  --A b__C--  ",
\* after another paper: its entry has the anchor "paper-00-a-b-c"
C21_Witness ==
    /\ Len(cRuns) >= 1
    /\ Len(Dicts(cSummary)) = 2
    /\ TocPaperLines(cRuns[1])[2].anchor =
          <<112, 97, 112, 101, 114, 45, 48, 48, 45, 97, 45, 98, 45, 99>>
    /\ PaperHeadingLines(cRuns[1])[2].text =
          PaperWord \o <<48, 48, 58, 32>> \o TitlePunctuated

SectionOrder ==
    <<"Executive Synopsis", "Table of Contents", "Corpus Manifest Summary",
      "Cross-Paper Tsunami-Vorticity Synthesis", "Per-Paper Summaries",
      "Bibliography", "Validation Checklist">>

Sections(md) ==
    LET h2 == SelectSeq(md, LAMBDA l : l.kind = "h2")
    IN  [i \in DOMAIN h2 |-> h2[i].label]

\* C22: every run of compose_markdown on the same summary writes the same
\* markdown, whatever the time of the run, with its sections in the fixed
\* order.
C22_RunsByteIdentical ==
    /\ \A i, j \in DOMAIN cRuns : cRuns[i] = cRuns[j]
    /\ \A r \in DOMAIN cRuns : Sections(cRuns[r]) = SectionOrder

\* ================================================ claims, sentence pass
Norms(items) == {SentenceNorm(items[i].text) : i \in DOMAIN items}

PoolIndexes == [i \in DOMAIN gPool |-> i]

\* item i matches a keyword of the pass and no earlier matching item has
\* its normalized text
FirstMatching(i) ==
    /\ MatchesKeyword(gPool[i].text, PassKeywords[gPass])
    /\ \A j \in 1..(i - 1) :
          MatchesKeyword(gPool[j].text, PassKeywords[gPass]) =>
              SentenceNorm(gPool[j].text) # SentenceNorm(gPool[i].text)

\* the selection as the policy states it: the matching sentences in pool
\* order, then the sentences not selected yet in pool order, cut at the limit
PolicySelection ==
    LET matching == SelectSeq(PoolIndexes, FirstMatching)
        matched == {SentenceNorm(gPool[matching[k]].text) : k \in DOMAIN matching}
        rest == SelectSeq(PoolIndexes, LAMBDA i :
                    /\ SentenceNorm(gPool[i].text) \notin matched
                    /\ \A j \in 1..(i - 1) :
                          SentenceNorm(gPool[j].text) # SentenceNorm(gPool[i].text))
        order == matching \o rest
    IN  [k \in 1..Min(gLimit, Len(order)) |-> gPool[order[k]]]

\* C25: pick_sentences with a limit N >= 1 returns min(N, number of
\* distinct normalized sentences of the pool) sentences, no two equal after
\* normalization: the keyword-matching ones in pool order, then the ones not
\* selected yet in pool order; the selection is empty, and the paragraph
\* the fallback text, only for an empty pool; the paragraph is never blank.
C25_PickFillsUpToLimit ==
    gPc = "picked" =>
        /\ Len(gChosen) = Min(gLimit, Cardinality(Norms(gPool)))
        /\ \A i, j \in DOMAIN gChosen :
              i # j => SentenceNorm(gChosen[i].text) # SentenceNorm(gChosen[j].text)
        /\ gChosen = PolicySelection
        /\ gChosen = <<>> <=> gPool = <<>>
        /\ gParagraph = PassFallback[gPass] <=> gPool = <<>>
        /\ \E c \in DOMAIN gParagraph : ~IsSpace(gParagraph[c])

\* the objective pass with limit 2 over a plain sentence, a matching one and
\* its respelling: the matching sentence first, then the plain one
C25_Witness ==
    /\ gPc = "picked"
    /\ gPass = "objective"
    /\ gLimit = 2
    /\ Len(gPool) = 3
    /\ gPool[1].text = SentencePlain
    /\ gPool[2].text = SentenceObjective
    /\ gPool[3].text = SentenceObjectiveUpper
    /\ Len(gChosen) = 2
    /\ gChosen[1].text = SentenceObjective
    /\ gChosen[2].text = SentencePlain

\* =================================================== claims, text split
\* the runs of all the blocks, in order
AllRuns == Flatten([b \in DOMAIN tOut |-> tOut[b].runs])

\* C26: no text run is longer than 1800 characters; no paragraph block has
\* more than 8 runs or 14400 characters; the runs of the blocks made of a
\* paragraph, concatenated in order, are the paragraph text; an equation
\* expression is at most 1000 characters.
C26_SplitWithinBudgetsAndLossless ==
    tPc = "done" =>
        /\ \A b \in DOMAIN tOut :
              /\ \A r \in DOMAIN tOut[b].runs : Len(tOut[b].runs[r]) <= 1800
              /\ tOut[b].type = "paragraph" =>
                    /\ Len(tOut[b].runs) <= 8
                    /\ Len(Flatten(tOut[b].runs)) <= 14400
              /\ tOut[b].type = "equation" => Len(tOut[b].runs[1]) <= 1000
        /\ tKind = "paragraph" => Flatten(AllRuns) = tText

\* ================================================ claims, markdown scan
\* no line from index i on closes a fence / an equation
Unterminated(i, Closes(_)) ==
    \A j \in (i + 1)..(Len(wLines) - 1) : ~Closes(StrippedAt(wLines, j))

ClosesFence(stripped) == startswith(stripped, Fence)
ClosesEquation(stripped) == stripped = Dollars

\* one iteration of the scan: the index grows; an unterminated fence or
\* equation takes the rest of the input; a line of no special form yields
\* a paragraph block of its own
ScanStep ==
    wPc = "scan" /\ wPc' = "scan" =>
        /\ wI' > wI
        /\ wI' <= Len(wLines)
        /\ At("fence") /\ Unterminated(wI, ClosesFence) => wI' = Len(wLines)
        /\ (At("equation") /\ ~IsInlineEquation(StrippedAt(wLines, wI))
               /\ Unterminated(wI, ClosesEquation)) => wI' = Len(wLines)
        /\ At("paragraph") =>
              /\ Len(wBlocks') = Len(wBlocks) + 1
              /\ wBlocks'[Len(wBlocks')].type = "paragraph"
              /\ wBlocks'[Len(wBlocks')].src = wI

\* the blocks are in the order of their source lines, all already scanned
BlocksInSourceOrder ==
    /\ \A a, b \in DOMAIN wBlocks : a < b => wBlocks[a].src < wBlocks[b].src
    /\ \A a \in DOMAIN wBlocks : wBlocks[a].src < wI

\* C28: parse_markdown ends on every input; every iteration of its scan
\* moves the line index forward (an unterminated fence or $$ block takes
\* the rest of the input, a line of no special form becomes a paragraph);
\* the blocks are in the order of the source lines they came from.
C28_ScanAdvancesAndEnds ==
    /\ [][ScanStep]_vars
    /\ []BlocksInSourceOrder
    /\ <>(wPc \in {"returned", "raised"})

\* returned after a "#x" paragraph, then a fence that is never closed and
\* takes the last line with it
C28_Witness ==
    /\ wPc = "returned"
    /\ Len(wLines) = 3
    /\ wLines[1] = LineHashTag
    /\ wLines[2] = LineFence
    /\ wLines[3] # LineFence
    /\ Len(wBlocks) = 2
    /\ wBlocks[1].type = "paragraph"
    /\ wBlocks[2].type = "code"
    /\ wBlocks[2].src = 1
    /\ wI = 3
====
